---- MODULE Spec2Model ----
\* AffiFlow: workspace-scoped authorization and resource lifecycle of the
\* API route handlers, over a relational store with the schema's unique
\* indexes and foreign keys.
EXTENDS Integers, Sequences, FiniteSets, TLC

\* ---------------------------------------------------------------- bounds
MaxWs == 2
MaxPosts == 2
MaxProducts == 2
MaxCategories == 2
MaxLinks == 2
MaxClock == 1
MaxStamp == 4
MaxInflight == 2

\* ------------------------------------------------------- program constants
MinSlugLen == 3
MaxSlugLen == 50
SuffixLen == 6
MinNameLen == 1

\* ------------------------------------------------------------ identities
Users == {"u1", "u2"}
NoSession == "anonymous"
\* Requests come from u1 or carry no session; u2 owns the seeded workspaces.
Callers == {"u1", NoSession}
WsIds == 1..MaxWs
PostIds == 1..MaxPosts
ProductIds == 1..MaxProducts
CategoryIds == 1..MaxCategories
LinkIds == 1..MaxLinks
Roles == {"MEMBER", "ADMIN", "OWNER"}
NoRole == "NONE"
Null == 0
Undefined == <<"undefined">>

\* ------------------------------------------------ strings as char sequences
LowerOf(c) ==
    CASE c = "A" -> "a"
      [] c = "B" -> "b"
      [] OTHER -> c

IsSpace(c) == c = " "

IsLowerAlnum(c) == c \in {"a", "b", "c", "d", "i", "m", "n", "x", "y", "0", "1"}

IsWord(c) == IsLowerAlnum(c) \/ c \in {"A", "B", "_"}

IsSeparator(c) == IsSpace(c) \/ c = "_" \/ c = "-"

ToLowerCase(s) == [i \in DOMAIN s |-> LowerOf(s[i])]

RECURSIVE DropLeading(_, _)
DropLeading(s, cs) ==
    IF s # <<>> /\ Head(s) \in cs THEN DropLeading(Tail(s), cs) ELSE s

RECURSIVE DropTrailing(_, _)
DropTrailing(s, cs) ==
    IF s # <<>> /\ s[Len(s)] \in cs
    THEN DropTrailing(SubSeq(s, 1, Len(s) - 1), cs)
    ELSE s

Trim(s) == DropTrailing(DropLeading(s, {" "}), {" "})

RemoveSpecial(s) ==
    LET Keep(c) == IsWord(c) \/ IsSpace(c) \/ c = "-"
    IN  SelectSeq(s, Keep)

RECURSIVE CollapseSeparators(_)
CollapseSeparators(s) ==
    IF s = <<>> THEN <<>>
    ELSE IF IsSeparator(Head(s))
         THEN <<"-">> \o CollapseSeparators(DropLeading(s, {" ", "_", "-"}))
         ELSE <<Head(s)>> \o CollapseSeparators(Tail(s))

generateSlug(title) ==
    DropTrailing(DropLeading(
        CollapseSeparators(RemoveSpecial(Trim(ToLowerCase(title)))),
        {"-"}), {"-"})

isValidSlug(slug) ==
    /\ slug # <<>>
    /\ \A i \in DOMAIN slug : IsLowerAlnum(slug[i]) \/ slug[i] = "-"
    /\ slug[1] # "-"
    /\ slug[Len(slug)] # "-"
    /\ \A i \in 1..(Len(slug) - 1) : ~(slug[i] = "-" /\ slug[i + 1] = "-")
    /\ Len(slug) >= MinSlugLen
    /\ Len(slug) <= MaxSlugLen

\* Math.random().toString(36).substring(2, 8): six base-36 characters.
RandomSuffixes == {[i \in 1..SuffixLen |-> c] : c \in {"a", "1"}}

WithSuffix_NoHyphen(slug, suffix) == slug \o suffix

WithSuffix(slug, suffix) == slug \o <<"-">> \o suffix

\* JavaScript truthiness of an optional string field.
Truthy(s) == s # Undefined /\ s # <<>>

\* String.prototype.includes on messages kept as word sequences
\* (case-sensitive, contiguous).
Includes(msg, needle) ==
    \E i \in 1..(Len(msg) - Len(needle) + 1) :
        SubSeq(msg, i, i + Len(needle) - 1) = needle

\* --------------------------------------------------------------- inputs
TitlePool ==
    { <<"A", "b", " ", "c">>,
      <<>> }

SlugPool ==
    { Undefined,
      <<"A", "B">>,
      <<"x", "y", "1">> }

\* PUT bodies: a rename, an invalid name, an invalid slug, a valid slug.
WsPutBodies ==
    { [name |-> <<"a", "b", "_", "c", "!">>, slug |-> Undefined],
      [name |-> <<>>, slug |-> Undefined],
      [name |-> Undefined, slug |-> <<"A", "B">>],
      [name |-> Undefined, slug |-> <<"x", "y", "1">>] }

\* ---------------------------------------------------------------- state
VARIABLES workspaces, members, posts, postProducts, products, categories,
          links, resp, browser, accounts, auth, inflight

vars == <<workspaces, members, posts, postProducts, products, categories,
          links, resp, browser, accounts, auth, inflight>>

NoWorkspace ==
    [exists |-> FALSE, name |-> <<>>, slug |-> <<>>, deletedAt |-> Null,
     createdAt |-> Null, updatedAt |-> Null]
NoPost ==
    [exists |-> FALSE, workspaceId |-> Null, title |-> <<>>, slug |-> <<>>,
     isPublished |-> FALSE, publishedAt |-> Null, deletedAt |-> Null]
NoProduct ==
    [exists |-> FALSE, workspaceId |-> Null, categoryId |-> Null,
     activeAffiliateLinkId |-> Null]
NoCategory == [exists |-> FALSE, workspaceId |-> Null, name |-> <<>>]
NoUrl == ""

NoLink == [exists |-> FALSE, workspaceId |-> Null, productId |-> Null, affiliateUrl |-> NoUrl]

\* The last response: the handler and its caller, the workspace and resource
\* addressed, the status and error sent, the message of the exception the
\* handler caught (what console.error logs), and the rows a read returned.
\* The 'success' member of the JSON body: the literal written, or "absent".
\* Success bodies are { success: true, ... }; error bodies are { error: ... }.
BodySuccess(status) == IF status = 200 THEN "true" ELSE "absent"

Response(op, user, ws, id, out, data) ==
    [op |-> op, user |-> user, ws |-> ws, id |-> id, status |-> out.status,
     success |-> BodySuccess(out.status),
     error |-> out.error, thrown |-> out.thrown, data |-> data, slug |-> <<>>,
     counts |-> {}]

NoResponse ==
    [op |-> "none", user |-> NoSession, ws |-> Null, id |-> Null, status |-> 0,
     success |-> "absent", error |-> <<>>, thrown |-> <<>>, data |-> {},
     slug |-> <<>>, counts |-> {}]

NoToken == <<>>

\* A session as auth() returns it: the user and the platform role.
Session(user, role) == [user |-> user, role |-> role]

AnonymousSession == Session(NoSession, "NONE")

\* What the browser holds and how its last page request was answered: the
\* affiflow_last_workspace cookie, the localStorage item of the same name,
\* the session and path of the request, the outcome of the middleware's
\* workspace lookup, and the middleware's answer.
NoBrowser ==
    [cookie |-> NoToken, localStorage |-> NoToken, session |-> AnonymousSession,
     pathname |-> <<>>, fetch |-> "none", answer |-> "none", location |-> <<>>,
     chain |-> {}]

\* One row of a response body: the kind of resource and its id.
\* A row of the users table as authorize reads it; password is the stored
\* hash, NoHash when the account was provisioned another way.
NoHash == <<>>

NoAccount ==
    [exists |-> FALSE, email |-> "", password |-> NoHash, name |-> "", role |-> "USER"]

\* bcrypt: the hash of a password, and bcrypt.compare(password, hash)
Hash(password) == <<"$2", password>>

Account(email, password, name, role) ==
    [exists |-> TRUE, email |-> email, password |-> password, name |-> name, role |-> role]

SeedAccounts ==
    [u \in Users |-> IF u = "u1" THEN Account("a@x", Hash("p"), "Ann", "USER")
                     ELSE Account("b@x", Hash("q"), "Bob", "USER")]

\* What authorize returned for the last sign-in attempt; NoPrincipal is null.
NoPrincipal == [id |-> NoSession, email |-> "", name |-> "", role |-> "NONE"]

NoAuth ==
    [called |-> FALSE, email |-> "", password |-> "", storeOk |-> TRUE,
     principal |-> NoPrincipal, session |-> AnonymousSession]

\* Requests that have done their reads and not yet their write: what each
\* one was asked and what its queries returned.
Slots == 1..MaxInflight

NoRequest ==
    [op |-> "none", caller |-> NoSession, ws |-> Null, id |-> Null, name |-> <<>>,
     product |-> Null, seen |-> Null]

Request(op, caller, ws, id, name, product, seen) ==
    [op |-> op, caller |-> caller, ws |-> ws, id |-> id, name |-> name,
     product |-> product, seen |-> seen]

Row(kind, id) == <<kind, id>>

\* new Date() written to a timestamp field: later than the value the field
\* holds (Null is earlier than every timestamp).
Later(t) == t + 1

\* -------------------------------------------------------- error messages
MsgUnauthorized == <<"Unauthorized">>
MsgWorkspaceDenied == <<"Workspace", "not", "found", "or", "access", "denied">>
MsgInsufficient == <<"Insufficient", "permissions">>
MsgAccessDenied == <<"Access", "denied", "to", "workspace">>
MsgInternal == <<"Internal", "server", "error">>
MsgValidation == <<"Validation", "failed">>
MsgWorkspaceNotFound == <<"Workspace", "not", "found">>
MsgInvalidSlug == <<"Invalid", "slug", "format">>
MsgSlugExists == <<"Slug", "already", "exists">>
MsgUniqueConstraint == <<"Unique", "constraint", "failed">>
MsgOk == <<>>

MsgPostNotFound == <<"Post", "not", "found", "or", "access", "denied">>
MsgProductsMismatch == <<"Some", "products", "not", "found", "or", "access", "denied">>

Outcome(status, error) == [status |-> status, error |-> error, thrown |-> MsgOk]

Thrown(status, error, thrown) == [status |-> status, error |-> error, thrown |-> thrown]

\* ------------------------------------------------------- access control
RoleOf(u, w) == IF u \in Users THEN members[u][w] ELSE NoRole

roleHierarchy == [r \in Roles |-> CASE r = "MEMBER" -> 0 [] r = "ADMIN" -> 1 [] r = "OWNER" -> 2]

verifyWorkspaceRole_Inverted(role, requiredRole) ==
    IF role = NoRole THEN MsgWorkspaceDenied
    ELSE IF roleHierarchy[role] > roleHierarchy[requiredRole] THEN MsgInsufficient
    ELSE MsgOk

verifyWorkspaceRole_ExactMatch(role, requiredRole) ==
    IF role = NoRole THEN MsgWorkspaceDenied
    ELSE IF role # requiredRole THEN MsgInsufficient
    ELSE MsgOk

\* verifyWorkspaceAccess of workspaces/[id]/route.ts: the thrown message, or MsgOk.
verifyWorkspaceRole(role, requiredRole) ==
    IF role = NoRole THEN MsgWorkspaceDenied
    ELSE IF roleHierarchy[role] < roleHierarchy[requiredRole] THEN MsgInsufficient
    ELSE MsgOk

\* verifyWorkspaceAccess of the resource routes: membership only.
verifyWorkspaceAccess(role) ==
    IF role = NoRole THEN MsgAccessDenied ELSE MsgOk

\* The catch block of a handler: 403 when the message includes the needle, else 500.
CatchThrown(msg, needle) ==
    IF Includes(msg, needle) THEN Thrown(403, msg, msg) ELSE Thrown(500, MsgInternal, msg)

\* ------------------------------------------------------------ workspaces
MaxOf(S) == IF S = {} THEN 0 ELSE CHOOSE x \in S : \A y \in S : y <= x

\* createdAt DEFAULT CURRENT_TIMESTAMP and updatedAt @updatedAt: the time of
\* the write, later than every time stored so far.
NowCreated == 1 + MaxOf({workspaces[w].createdAt : w \in {x \in WsIds : workspaces[x].exists}})

NowUpdated == 1 + MaxOf({workspaces[w].updatedAt : w \in {x \in WsIds : workspaces[x].exists}})

ExistingWs == {w \in WsIds : workspaces[w].exists}

WsSlugTaken(slug, except) ==
    \E w \in ExistingWs \ except : workspaces[w].slug = slug

LivePostsOf(w) ==
    {p \in PostIds : posts[p].exists /\ posts[p].workspaceId = w /\ posts[p].deletedAt = Null}

\* _count: { select: { posts: true } }: every post row of the workspace
PostsOf(w) ==
    {p \in PostIds : posts[p].exists /\ posts[p].workspaceId = w}

\* GET /api/workspaces/[id]
WsGetOutcome(caller, role, w) ==
    IF caller = NoSession THEN Outcome(401, MsgUnauthorized)
    ELSE IF verifyWorkspaceRole(role, "MEMBER") # MsgOk
         THEN CatchThrown(verifyWorkspaceRole(role, "MEMBER"), <<"access", "denied">>)
    ELSE IF ~(workspaces[w].exists /\ workspaces[w].deletedAt = Null)
         THEN Outcome(404, MsgWorkspaceNotFound)
    ELSE Outcome(200, MsgOk)

WsGet(caller, w) ==
    LET out == WsGetOutcome(caller, RoleOf(caller, w), w)
    IN  /\ resp' = [Response("WS_GET", caller, w, w, out,
                             IF out.status = 200 THEN LivePostsOf(w) ELSE {})
                     EXCEPT !.counts = IF out.status = 200
                                       THEN {<<w, Cardinality(LivePostsOf(w))>>}
                                       ELSE {}]
        /\ UNCHANGED <<workspaces, members, posts, postProducts, products,
                       categories, links, browser, accounts, auth, inflight>>

\* PUT /api/workspaces/[id]
WsPutOutcome(caller, role, w, body) ==
    IF caller = NoSession THEN Outcome(401, MsgUnauthorized)
    ELSE IF verifyWorkspaceRole(role, "ADMIN") # MsgOk
         THEN CatchThrown(verifyWorkspaceRole(role, "ADMIN"), <<"permissions">>)
    ELSE IF body.name # Undefined /\ Len(body.name) < MinNameLen
         THEN Outcome(400, MsgValidation)
    ELSE IF Truthy(body.slug) /\ ~isValidSlug(body.slug)
         THEN Outcome(400, MsgInvalidSlug)
    ELSE IF Truthy(body.slug) /\ WsSlugTaken(body.slug, {w})
         THEN Outcome(400, MsgSlugExists)
    ELSE Outcome(200, MsgOk)

WsUpdateData(ws, body) ==
    [ws EXCEPT !.name = IF body.name # Undefined THEN body.name ELSE @,
               !.slug = IF body.slug # Undefined THEN body.slug ELSE @,
               !.updatedAt = NowUpdated]

WsPut(caller, w, body) ==
    LET out == WsPutOutcome(caller, RoleOf(caller, w), w, body)
    IN  /\ out.status = 200 => NowUpdated <= MaxStamp
        /\ resp' = Response("WS_PUT", caller, w, w, out, {})
        /\ workspaces' = IF out.status = 200
                         THEN [workspaces EXCEPT ![w] = WsUpdateData(@, body)]
                         ELSE workspaces
        /\ UNCHANGED <<members, posts, postProducts, products, categories, links, browser, accounts, auth, inflight>>

\* DELETE /api/workspaces/[id]
WsDeleteOutcome(caller, role, w) ==
    IF caller = NoSession THEN Outcome(401, MsgUnauthorized)
    ELSE IF verifyWorkspaceRole(role, "OWNER") # MsgOk
         THEN CatchThrown(verifyWorkspaceRole(role, "OWNER"), <<"permissions">>)
    ELSE Outcome(200, MsgOk)

WsDelete(caller, w) ==
    LET out == WsDeleteOutcome(caller, RoleOf(caller, w), w)
    IN  /\ out.status = 200 => workspaces[w].deletedAt < MaxClock /\ NowUpdated <= MaxStamp
        /\ resp' = Response("WS_DELETE", caller, w, w, out, {})
        /\ IF out.status = 200
           THEN workspaces' = [workspaces EXCEPT
                                   ![w].deletedAt = Later(@),
                                   ![w].updatedAt = NowUpdated]
           ELSE UNCHANGED workspaces
        /\ UNCHANGED <<members, posts, postProducts, products, categories, links, browser, accounts, auth, inflight>>

\* GET /api/workspaces
WsList(caller) ==
    /\ resp' = IF caller = NoSession
               THEN Response("WS_LIST", caller, Null, Null, Outcome(401, MsgUnauthorized), {})
               ELSE [Response("WS_LIST", caller, Null, Null, Outcome(200, MsgOk),
                              {w \in ExistingWs : /\ members[caller][w] # NoRole
                                                  /\ workspaces[w].deletedAt = Null})
                     EXCEPT !.counts =
                        {<<w, Cardinality(PostsOf(w))>> :
                            w \in {x \in ExistingWs : /\ members[caller][x] # NoRole
                                                      /\ workspaces[x].deletedAt = Null}}]
    /\ UNCHANGED <<workspaces, members, posts, postProducts, products,
                   categories, links, browser, accounts, auth, inflight>>

\* POST /api/workspaces: the slug the handler asks the store to insert.
WsDesiredSlug(name, providedSlug) ==
    LET slug == IF Truthy(providedSlug) THEN providedSlug ELSE generateSlug(name)
    IN  IF isValidSlug(slug) THEN slug ELSE generateSlug(name)

WsCreateSlug(name, providedSlug, suffix) ==
    LET slug == WsDesiredSlug(name, providedSlug)
    IN  IF WsSlugTaken(slug, {}) THEN WithSuffix(slug, suffix) ELSE slug

\* The unique index workspaces_slug_key, as the insert sees it.
WsInsertRejected(slug) == WsSlugTaken(slug, {})

WsCreateOutcome(caller, name, providedSlug, suffix) ==
    IF caller = NoSession THEN Outcome(401, MsgUnauthorized)
    ELSE IF Len(name) < MinNameLen THEN Outcome(400, MsgValidation)
    ELSE IF WsInsertRejected(WsCreateSlug(name, providedSlug, suffix))
         THEN Thrown(500, MsgInternal, MsgUniqueConstraint)
    ELSE Outcome(200, MsgOk)

WsCreateMembers_AsMember(caller, w) == [members EXCEPT ![caller][w] = "MEMBER"]

\* users: { create: { userId, role: "OWNER" } }, nested in workspace.create
WsCreateMembers(caller, w) == [members EXCEPT ![caller][w] = "OWNER"]

WsCreateStore(caller, name, providedSlug, suffix) ==
    LET out == WsCreateOutcome(caller, name, providedSlug, suffix)
        w == CHOOSE x \in WsIds \ ExistingWs : \A y \in WsIds \ ExistingWs : x <= y
        slug == WsCreateSlug(name, providedSlug, suffix)
    IN  /\ out.status = 200 => WsIds \ ExistingWs # {} /\ NowUpdated <= MaxStamp
        /\ resp' = Response("WS_CREATE", caller, IF out.status = 200 THEN w ELSE Null,
                            Null, out, {})
        /\ IF out.status = 200
           THEN /\ workspaces' = [workspaces EXCEPT ![w] =
                       [exists |-> TRUE, name |-> name, slug |-> slug, deletedAt |-> Null,
                        createdAt |-> NowCreated, updatedAt |-> NowUpdated]]
                /\ members' = WsCreateMembers(caller, w)
           ELSE UNCHANGED <<workspaces, members>>
        /\ UNCHANGED <<posts, postProducts, products, categories, links>>

WsCreate(caller, name, providedSlug, suffix) ==
    /\ WsCreateStore(caller, name, providedSlug, suffix)
    /\ UNCHANGED <<browser, accounts, auth, inflight>>

\* ----------------------------------------------------------------- posts
AbsentIds == {-1}

\* JSON booleans and ISO date strings of a request body; a date string is
\* kept as one character per clock tick.
JsTrue == <<"true">>

JsFalse == <<"false">>

\* Date.prototype.toISOString
ToISOString(t) == [i \in 1..t |-> "1"]

\* new Date(isoString)
ParseDate(str) == Len(str)

\* A post body: fields the request leaves out are Undefined (AbsentIds for
\* productIds); CreatePostSchema defaults isPublished to false.
PostBody(title, slug, isPublished, publishedAt, productIds) ==
    [title |-> title, slug |-> slug, isPublished |-> isPublished,
     publishedAt |-> publishedAt, productIds |-> productIds]

ExistingPosts == {p \in PostIds : posts[p].exists}

\* findFirst({workspaceId, slug, deletedAt: null, NOT: {id}})
PostSlugLive(w, slug, except) ==
    \E p \in ExistingPosts \ except :
        /\ posts[p].workspaceId = w
        /\ posts[p].slug = slug
        /\ posts[p].deletedAt = Null

\* The unique index posts_workspaceId_slug_key: every row counts, deleted or not.
PostIndexViolated(w, slug, except) ==
    \E p \in ExistingPosts \ except :
        posts[p].workspaceId = w /\ posts[p].slug = slug

\* products.length !== productIds.length
ProductsMismatch(w, ids) ==
    Cardinality({x \in ids : x \in ProductIds /\ products[x].exists
                             /\ products[x].workspaceId = w}) # Cardinality(ids)

verifyPostAccess_IgnoresDeleted(role, w, p) ==
    IF role = NoRole THEN MsgAccessDenied
    ELSE IF ~(posts[p].exists /\ posts[p].workspaceId = w)
         THEN MsgPostNotFound
    ELSE MsgOk

verifyPostAccess(role, w, p) ==
    IF role = NoRole THEN MsgAccessDenied
    ELSE IF ~(posts[p].exists /\ posts[p].workspaceId = w /\ posts[p].deletedAt = Null)
         THEN MsgPostNotFound
    ELSE MsgOk

\* GET /api/workspaces/[id]/posts
PostListOutcome(caller, role, w) ==
    IF caller = NoSession THEN Outcome(401, MsgUnauthorized)
    ELSE IF verifyWorkspaceAccess(role) # MsgOk
         THEN CatchThrown(verifyWorkspaceAccess(role), <<"Access", "denied">>)
    ELSE Outcome(200, MsgOk)

PostListRows(w) ==
    {Row("post", p) : p \in {x \in ExistingPosts : /\ posts[x].workspaceId = w
                                                   /\ posts[x].deletedAt = Null}}

PostList(caller, w) ==
    LET out == PostListOutcome(caller, RoleOf(caller, w), w)
    IN  /\ resp' = Response("POST_LIST", caller, w, Null, out,
                            IF out.status = 200 THEN PostListRows(w) ELSE {})
        /\ UNCHANGED <<workspaces, members, posts, postProducts, products,
                       categories, links, browser, accounts, auth, inflight>>

\* Math.random() runs only inside the collision branch; elsewhere no suffix is
\* drawn (NoSuffix).
NoSuffix == <<>>

\* postData.slug || generateSlug(postData.title)
PostDesiredSlug(body) ==
    IF Truthy(body.slug) THEN body.slug ELSE generateSlug(body.title)

PostCreateDraws(w, body) ==
    IF PostSlugLive(w, PostDesiredSlug(body), {}) THEN RandomSuffixes ELSE {NoSuffix}

\* POST /api/workspaces/[id]/posts
PostCreateSlug(w, body, suffix) ==
    IF PostSlugLive(w, PostDesiredSlug(body), {})
    THEN WithSuffix(PostDesiredSlug(body), suffix)
    ELSE PostDesiredSlug(body)

PostCreateOutcome(caller, role, w, body, suffix) ==
    IF caller = NoSession THEN Outcome(401, MsgUnauthorized)
    ELSE IF verifyWorkspaceAccess(role) # MsgOk
         THEN CatchThrown(verifyWorkspaceAccess(role), <<"Access", "denied">>)
    ELSE IF body.title = Undefined \/ Len(body.title) < MinNameLen
         THEN Outcome(400, MsgValidation)
    ELSE IF PostIndexViolated(w, PostCreateSlug(w, body, suffix), {})
         THEN CatchThrown(MsgUniqueConstraint, <<"Access", "denied">>)
    ELSE IF body.productIds # AbsentIds /\ body.productIds # {}
            /\ ProductsMismatch(w, body.productIds)
         THEN CatchThrown(MsgProductsMismatch, <<"Access", "denied">>)
    ELSE Outcome(200, MsgOk)

NewPost(w, body, slug) ==
    [exists |-> TRUE, workspaceId |-> w, title |-> body.title, slug |-> slug,
     isPublished |-> body.isPublished = JsTrue,
     publishedAt |-> IF body.isPublished = JsTrue THEN Later(Null) ELSE Null,
     deletedAt |-> Null]

PostCreate(caller, w, body) ==
    \E suffix \in PostCreateDraws(w, body) :
    LET out == PostCreateOutcome(caller, RoleOf(caller, w), w, body, suffix)
        p == CHOOSE x \in PostIds \ ExistingPosts : \A y \in PostIds \ ExistingPosts : x <= y
    IN  /\ out.status = 200 => PostIds \ ExistingPosts # {}
        /\ resp' = Response("POST_CREATE", caller, w, IF out.status = 200 THEN p ELSE Null,
                            out, {})
        /\ IF out.status = 200
           THEN /\ posts' = [posts EXCEPT ![p] = NewPost(w, body, PostCreateSlug(w, body, suffix))]
                /\ postProducts' = postProducts \cup
                      (IF body.productIds = AbsentIds THEN {}
                       ELSE {<<p, x>> : x \in body.productIds})
           ELSE UNCHANGED <<posts, postProducts>>
        /\ UNCHANGED <<workspaces, members, products, categories, links, browser, accounts, auth, inflight>>

\* GET /api/workspaces/[id]/posts/[postId]
PostGetOutcome(caller, role, w, p) ==
    IF caller = NoSession THEN Outcome(401, MsgUnauthorized)
    ELSE IF verifyPostAccess(role, w, p) # MsgOk
         THEN CatchThrown(verifyPostAccess(role, w, p), <<"Access", "denied">>)
    ELSE Outcome(200, MsgOk)

PostGet(caller, w, p) ==
    LET out == PostGetOutcome(caller, RoleOf(caller, w), w, p)
    IN  /\ resp' = Response("POST_GET", caller, w, p, out,
                            IF out.status = 200
                            THEN {Row("post", p)}
                                 \cup {Row("product", pp[2]) : pp \in {x \in postProducts : x[1] = p}}
                            ELSE {})
        /\ UNCHANGED <<workspaces, members, posts, postProducts, products,
                       categories, links, browser, accounts, auth, inflight>>

PostPutDraws(w, p, body) ==
    LET slug == IF Truthy(body.title) /\ ~Truthy(body.slug)
                THEN generateSlug(body.title)
                ELSE body.slug
    IN  IF Truthy(slug) /\ PostSlugLive(w, slug, {p}) THEN RandomSuffixes ELSE {NoSuffix}

\* PUT /api/workspaces/[id]/posts/[postId]: the slug the update writes.
PostPutSlug(w, p, body, suffix) ==
    LET slug == IF Truthy(body.title) /\ ~Truthy(body.slug)
                THEN generateSlug(body.title)
                ELSE body.slug
    IN  IF Truthy(slug) /\ PostSlugLive(w, slug, {p}) THEN WithSuffix(slug, suffix) ELSE slug

\* The publishedAt the update writes (Undefined: the column is left alone).
PostPutPublishedAt(post, body) ==
    IF body.isPublished = Undefined THEN body.publishedAt
    ELSE IF body.isPublished = JsTrue /\ ~Truthy(body.publishedAt)
         THEN ToISOString(Later(post.publishedAt))
    ELSE IF body.isPublished = JsFalse THEN Undefined
    ELSE body.publishedAt

PostUpdateData(post, body, slug) ==
    [post EXCEPT
        !.title = IF body.title # Undefined THEN body.title ELSE @,
        !.slug = IF slug # Undefined THEN slug ELSE @,
        !.isPublished = IF body.isPublished # Undefined THEN body.isPublished = JsTrue ELSE @,
        !.publishedAt = IF Truthy(PostPutPublishedAt(post, body))
                        THEN ParseDate(PostPutPublishedAt(post, body)) ELSE @]

PostPutOutcome(caller, role, w, p, body, suffix) ==
    IF caller = NoSession THEN Outcome(401, MsgUnauthorized)
    ELSE IF verifyPostAccess(role, w, p) # MsgOk
         THEN CatchThrown(verifyPostAccess(role, w, p), <<"Access", "denied">>)
    ELSE IF body.title # Undefined /\ Len(body.title) < MinNameLen
         THEN Outcome(400, MsgValidation)
    ELSE IF PostPutSlug(w, p, body, suffix) # Undefined
            /\ PostIndexViolated(w, PostPutSlug(w, p, body, suffix), {p})
         THEN CatchThrown(MsgUniqueConstraint, <<"Access", "denied">>)
    ELSE IF body.productIds # AbsentIds /\ body.productIds # {}
            /\ ProductsMismatch(w, body.productIds)
         THEN CatchThrown(MsgProductsMismatch, <<"Access", "denied">>)
    ELSE Outcome(200, MsgOk)

\* What the transaction leaves in the store when its callback throws.
PostPutRolledBack_Partial(p, body) ==
    [posts |-> posts,
     postProducts |-> IF body.productIds # AbsentIds
                      THEN {pp \in postProducts : pp[1] # p}
                      ELSE postProducts]

PostPutRolledBack(p, body) == [posts |-> posts, postProducts |-> postProducts]

PostPutCommitted(w, p, body, suffix) ==
    [posts |-> [posts EXCEPT ![p] = PostUpdateData(@, body, PostPutSlug(w, p, body, suffix))],
     postProducts |-> IF body.productIds = AbsentIds THEN postProducts
                      ELSE {pp \in postProducts : pp[1] # p}
                           \cup {<<p, x>> : x \in body.productIds}]

PostPut(caller, w, p, body) ==
    \E suffix \in PostPutDraws(w, p, body) :
    LET out == PostPutOutcome(caller, RoleOf(caller, w), w, p, body, suffix)
        after == IF out.status = 200 THEN PostPutCommitted(w, p, body, suffix)
                 ELSE IF out.thrown \in {MsgUniqueConstraint, MsgProductsMismatch}
                      THEN PostPutRolledBack(p, body)
                 ELSE [posts |-> posts, postProducts |-> postProducts]
    IN  /\ (out.status = 200 /\ body.isPublished = JsTrue /\ ~Truthy(body.publishedAt))
           => posts[p].publishedAt < MaxClock
        /\ resp' = Response("POST_PUT", caller, w, p, out, {})
        /\ posts' = after.posts
        /\ postProducts' = after.postProducts
        /\ UNCHANGED <<workspaces, members, products, categories, links, browser, accounts, auth, inflight>>

\* DELETE /api/workspaces/[id]/posts/[postId]
PostDeleteOutcome(caller, role, w, p) ==
    IF caller = NoSession THEN Outcome(401, MsgUnauthorized)
    ELSE IF verifyPostAccess(role, w, p) # MsgOk
         THEN CatchThrown(verifyPostAccess(role, w, p), <<"Access", "denied">>)
    ELSE Outcome(200, MsgOk)

PostDelete(caller, w, p) ==
    LET out == PostDeleteOutcome(caller, RoleOf(caller, w), w, p)
    IN  /\ out.status = 200 => posts[p].deletedAt < MaxClock
        /\ resp' = Response("POST_DELETE", caller, w, p, out, {})
        /\ posts' = IF out.status = 200
                    THEN [posts EXCEPT ![p].deletedAt = Later(@)]
                    ELSE posts
        /\ UNCHANGED <<workspaces, members, postProducts, products, categories, links, browser, accounts, auth, inflight>>

\* ------------------------------------------------- categories and products
MsgCategoryNotFound == <<"Category", "not", "found", "or", "access", "denied">>
MsgProductNotFound == <<"Product", "not", "found", "or", "access", "denied">>
MsgLinkNotFound == <<"Affiliate", "link", "not", "found", "or", "access", "denied">>
MsgCategoryNameExists == <<"Category", "name", "already", "exists">>
MsgCannotDeleteCategory == <<"Cannot", "delete", "category">>
MsgCannotDeleteProduct == <<"Cannot", "delete", "product">>
MsgLinkUrlExists == <<"Affiliate", "URL", "already", "exists">>
MsgLinkUrlExistsForProduct ==
    <<"Affiliate", "URL", "already", "exists", "for", "this", "product">>
MsgForeignKey == <<"Foreign", "key", "constraint", "failed">>

ExistingProducts == {p \in ProductIds : products[p].exists}
ExistingCategories == {c \in CategoryIds : categories[c].exists}
ExistingLinks == {l \in LinkIds : links[l].exists}

LowestFree(ids) == CHOOSE x \in ids : \A y \in ids : x <= y

\* session check, then the helper's throw caught by the handler's catch block
Guarded(caller, msg, rest) ==
    IF caller = NoSession THEN Outcome(401, MsgUnauthorized)
    ELSE IF msg # MsgOk THEN CatchThrown(msg, <<"Access", "denied">>)
    ELSE rest

verifyCategoryAccess(role, w, c) ==
    IF role = NoRole THEN MsgAccessDenied
    ELSE IF ~(categories[c].exists /\ categories[c].workspaceId = w)
         THEN MsgCategoryNotFound
    ELSE MsgOk

verifyProductAccess(role, w, p) ==
    IF role = NoRole THEN MsgAccessDenied
    ELSE IF ~(products[p].exists /\ products[p].workspaceId = w)
         THEN MsgProductNotFound
    ELSE MsgOk

\* GET /api/workspaces/[id]/categories
CategoryList(caller, w) ==
    LET out == Guarded(caller, verifyWorkspaceAccess(RoleOf(caller, w)), Outcome(200, MsgOk))
    IN  /\ resp' = Response("CAT_LIST", caller, w, Null, out,
                            IF out.status = 200
                            THEN {Row("category", c) :
                                    c \in {x \in ExistingCategories : categories[x].workspaceId = w}}
                            ELSE {})
        /\ UNCHANGED <<workspaces, members, posts, postProducts, products,
                       categories, links, browser, accounts, auth, inflight>>

\* findFirst({workspaceId, name, id: {not}})
CategoryNameTaken(w, name, except) ==
    \E c \in ExistingCategories \ except :
        categories[c].workspaceId = w /\ categories[c].name = name

\* POST /api/workspaces/[id]/categories
CategoryCreateOutcome(caller, role, w, name) ==
    Guarded(caller, verifyWorkspaceAccess(role),
        IF Len(name) < MinNameLen THEN Outcome(400, MsgValidation)
        ELSE IF CategoryNameTaken(w, name, {}) THEN Outcome(400, MsgCategoryNameExists)
        ELSE Outcome(200, MsgOk))

CategoryCreate(caller, w, name) ==
    LET out == CategoryCreateOutcome(caller, RoleOf(caller, w), w, name)
        c == LowestFree(CategoryIds \ ExistingCategories)
    IN  /\ out.status = 200 => CategoryIds \ ExistingCategories # {}
        /\ resp' = Response("CAT_CREATE", caller, w, IF out.status = 200 THEN c ELSE Null,
                            out, {})
        /\ categories' = IF out.status = 200
                         THEN [categories EXCEPT
                                 ![c] = [exists |-> TRUE, workspaceId |-> w, name |-> name]]
                         ELSE categories
        /\ UNCHANGED <<workspaces, members, posts, postProducts, products, links, browser, accounts, auth, inflight>>

\* GET /api/workspaces/[id]/categories/[categoryId]: the category and the
\* products the include embeds (every product row whose categoryId is it).
CategoryGetRows(c) ==
    {Row("category", c)}
    \cup {Row("product", p) : p \in {x \in ExistingProducts : products[x].categoryId = c}}

CategoryGet(caller, w, c) ==
    LET out == Guarded(caller, verifyCategoryAccess(RoleOf(caller, w), w, c),
                       Outcome(200, MsgOk))
    IN  /\ resp' = Response("CAT_GET", caller, w, c, out,
                            IF out.status = 200 THEN CategoryGetRows(c) ELSE {})
        /\ UNCHANGED <<workspaces, members, posts, postProducts, products,
                       categories, links, browser, accounts, auth, inflight>>

\* PUT /api/workspaces/[id]/categories/[categoryId]
CategoryPutOutcome(caller, role, w, c, name) ==
    Guarded(caller, verifyCategoryAccess(role, w, c),
        IF name # Undefined /\ Len(name) < MinNameLen THEN Outcome(400, MsgValidation)
        ELSE IF Truthy(name) /\ CategoryNameTaken(w, name, {c})
             THEN Outcome(400, MsgCategoryNameExists)
        ELSE Outcome(200, MsgOk))

CategoryPut(caller, w, c, name) ==
    LET out == CategoryPutOutcome(caller, RoleOf(caller, w), w, c, name)
    IN  /\ resp' = Response("CAT_PUT", caller, w, c, out, {})
        /\ categories' = IF out.status = 200 /\ name # Undefined
                         THEN [categories EXCEPT ![c].name = name]
                         ELSE categories
        /\ UNCHANGED <<workspaces, members, posts, postProducts, products, links, browser, accounts, auth, inflight>>

CategoryProductCount_SameWorkspace(w, c) ==
    Cardinality({p \in ExistingProducts :
                    products[p].categoryId = c /\ products[p].workspaceId = w})

\* product.count({where: {categoryId}})
CategoryProductCount(w, c) ==
    Cardinality({p \in ExistingProducts : products[p].categoryId = c})

\* DELETE /api/workspaces/[id]/categories/[categoryId]
CategoryDeleteOutcome(caller, role, w, c) ==
    Guarded(caller, verifyCategoryAccess(role, w, c),
        IF CategoryProductCount(w, c) > 0 THEN Outcome(400, MsgCannotDeleteCategory)
        ELSE Outcome(200, MsgOk))

\* products_categoryId_fkey: ON DELETE SET NULL
CategoryFkSetNull(c) ==
    [p \in ProductIds |->
        IF products[p].exists /\ products[p].categoryId = c
        THEN [products[p] EXCEPT !.categoryId = Null]
        ELSE products[p]]

CategoryDelete(caller, w, c) ==
    LET out == CategoryDeleteOutcome(caller, RoleOf(caller, w), w, c)
    IN  /\ resp' = Response("CAT_DELETE", caller, w, c, out, {})
        /\ IF out.status = 200
           THEN /\ categories' = [categories EXCEPT ![c] = NoCategory]
                /\ products' = CategoryFkSetNull(c)
           ELSE UNCHANGED <<categories, products>>
        /\ UNCHANGED <<workspaces, members, posts, postProducts, links, browser, accounts, auth, inflight>>

\* A product body: categoryId and activeAffiliateLinkId are Null when the
\* request leaves them out or sends them empty (the handler deletes the key).
ProductBody(name, categoryId, activeAffiliateLinkId) ==
    [name |-> name, categoryId |-> categoryId,
     activeAffiliateLinkId |-> activeAffiliateLinkId]

\* products_categoryId_fkey and products_activeAffiliateLinkId_fkey
ProductFkViolated(body) ==
    \/ body.categoryId # Null /\ body.categoryId \notin ExistingCategories
    \/ body.activeAffiliateLinkId # Null /\ body.activeAffiliateLinkId \notin ExistingLinks

\* products_activeAffiliateLinkId_key
ActiveLinkIndexViolated(l, except) ==
    /\ l # Null
    /\ \E q \in ExistingProducts \ except : products[q].activeAffiliateLinkId = l

ProductWriteOutcome(body, except) ==
    IF ProductFkViolated(body)
    THEN CatchThrown(MsgForeignKey, <<"Access", "denied">>)
    ELSE IF ActiveLinkIndexViolated(body.activeAffiliateLinkId, except)
         THEN CatchThrown(MsgUniqueConstraint, <<"Access", "denied">>)
    ELSE Outcome(200, MsgOk)

\* the posts a product row embeds (include: posts: post)
ProductRows(p) ==
    {Row("product", p)}
    \cup {Row("post", pp[1]) : pp \in {x \in postProducts : x[2] = p}}

\* GET /api/workspaces/[id]/products
ProductList(caller, w) ==
    LET out == Guarded(caller, verifyWorkspaceAccess(RoleOf(caller, w)), Outcome(200, MsgOk))
    IN  /\ resp' = Response("PRODUCT_LIST", caller, w, Null, out,
                            IF out.status = 200
                            THEN UNION {ProductRows(p) :
                                    p \in {x \in ExistingProducts : products[x].workspaceId = w}}
                            ELSE {})
        /\ UNCHANGED <<workspaces, members, posts, postProducts, products,
                       categories, links, browser, accounts, auth, inflight>>

\* POST /api/workspaces/[id]/products
ProductCreateOutcome(caller, role, w, body) ==
    Guarded(caller, verifyWorkspaceAccess(role),
        IF Len(body.name) < MinNameLen THEN Outcome(400, MsgValidation)
        ELSE ProductWriteOutcome(body, {}))

ProductCreate(caller, w, body) ==
    LET out == ProductCreateOutcome(caller, RoleOf(caller, w), w, body)
        p == LowestFree(ProductIds \ ExistingProducts)
    IN  /\ out.status = 200 => ProductIds \ ExistingProducts # {}
        /\ resp' = Response("PRODUCT_CREATE", caller, w,
                            IF out.status = 200 THEN p ELSE Null, out, {})
        /\ products' = IF out.status = 200
                       THEN [products EXCEPT
                               ![p] = [exists |-> TRUE, workspaceId |-> w,
                                       categoryId |-> body.categoryId,
                                       activeAffiliateLinkId |-> body.activeAffiliateLinkId]]
                       ELSE products
        /\ UNCHANGED <<workspaces, members, posts, postProducts, categories, links, browser, accounts, auth, inflight>>

\* GET /api/workspaces/[id]/products/[productId]
ProductGet(caller, w, p) ==
    LET out == Guarded(caller, verifyProductAccess(RoleOf(caller, w), w, p),
                       Outcome(200, MsgOk))
    IN  /\ resp' = Response("PRODUCT_GET", caller, w, p, out,
                            IF out.status = 200 THEN ProductRows(p) ELSE {})
        /\ UNCHANGED <<workspaces, members, posts, postProducts, products,
                       categories, links, browser, accounts, auth, inflight>>

\* PUT /api/workspaces/[id]/products/[productId]
ProductPutOutcome(caller, role, w, p, body) ==
    Guarded(caller, verifyProductAccess(role, w, p),
        IF body.name # Undefined /\ Len(body.name) < MinNameLen
        THEN Outcome(400, MsgValidation)
        ELSE ProductWriteOutcome(body, {p}))

ProductUpdateData(product, body) ==
    [product EXCEPT
        !.categoryId = IF body.categoryId # Null THEN body.categoryId ELSE @,
        !.activeAffiliateLinkId =
            IF body.activeAffiliateLinkId # Null THEN body.activeAffiliateLinkId ELSE @]

ProductPut(caller, w, p, body) ==
    LET out == ProductPutOutcome(caller, RoleOf(caller, w), w, p, body)
    IN  /\ resp' = Response("PRODUCT_PUT", caller, w, p, out, {})
        /\ products' = IF out.status = 200
                       THEN [products EXCEPT ![p] = ProductUpdateData(@, body)]
                       ELSE products
        /\ UNCHANGED <<workspaces, members, posts, postProducts, categories, links, browser, accounts, auth, inflight>>

\* DELETE /api/workspaces/[id]/products/[productId]
ProductDeleteOutcome(caller, role, w, p) ==
    Guarded(caller, verifyProductAccess(role, w, p),
        IF Cardinality({pp \in postProducts : pp[2] = p}) > 0
        THEN Outcome(400, MsgCannotDeleteProduct)
        ELSE Outcome(200, MsgOk))

\* affiliate_links_productId_fkey: ON DELETE CASCADE
LinksCascaded(p) == {l \in ExistingLinks : links[l].productId = p}

\* products_activeAffiliateLinkId_fkey: ON DELETE SET NULL, for the links gone
ActiveFkSetNull(ps, gone) ==
    [q \in ProductIds |->
        IF ps[q].exists /\ ps[q].activeAffiliateLinkId \in gone
        THEN [ps[q] EXCEPT !.activeAffiliateLinkId = Null]
        ELSE ps[q]]

ProductDelete(caller, w, p) ==
    LET out == ProductDeleteOutcome(caller, RoleOf(caller, w), w, p)
    IN  /\ resp' = Response("PRODUCT_DELETE", caller, w, p, out, {})
        /\ IF out.status = 200
           THEN /\ products' = ActiveFkSetNull([products EXCEPT ![p] = NoProduct],
                                               LinksCascaded(p))
                /\ links' = [l \in LinkIds |->
                                IF l \in LinksCascaded(p) THEN NoLink ELSE links[l]]
                /\ postProducts' = {pp \in postProducts : pp[2] # p}
           ELSE UNCHANGED <<products, links, postProducts>>
        /\ UNCHANGED <<workspaces, members, posts, categories, browser, accounts, auth, inflight>>

\* ------------------------------------------------------- affiliate links
verifyLinkAccess(role, w, l) ==
    IF role = NoRole THEN MsgAccessDenied
    ELSE IF ~(links[l].exists /\ links[l].workspaceId = w)
         THEN MsgLinkNotFound
    ELSE MsgOk

\* isActive: link.product.activeAffiliateLinkId === link.id
IsActive(l) == products[links[l].productId].activeAffiliateLinkId = l

\* a link row with the product it embeds, marked when reported active
LinkRows(l) ==
    {Row("link", l), Row("product", links[l].productId)}
    \cup (IF IsActive(l) THEN {Row("active", l)} ELSE {})

\* GET /api/workspaces/[id]/affiliate-links
LinkList(caller, w) ==
    LET out == Guarded(caller, verifyWorkspaceAccess(RoleOf(caller, w)), Outcome(200, MsgOk))
    IN  /\ resp' = Response("LINK_LIST", caller, w, Null, out,
                            IF out.status = 200
                            THEN UNION {LinkRows(l) :
                                    l \in {x \in ExistingLinks : links[x].workspaceId = w}}
                            ELSE {})
        /\ UNCHANGED <<workspaces, members, posts, postProducts, products,
                       categories, links, browser, accounts, auth, inflight>>

\* POST /api/workspaces/[id]/affiliate-links
LinkCreateOutcome(caller, role, w, productId, url) ==
    Guarded(caller, verifyWorkspaceAccess(role),
        IF ~(products[productId].exists /\ products[productId].workspaceId = w)
        THEN Outcome(404, MsgProductNotFound)
        ELSE IF \E l \in ExistingLinks :
                   links[l].productId = productId /\ links[l].affiliateUrl = url
             THEN Outcome(400, MsgLinkUrlExistsForProduct)
        ELSE Outcome(200, MsgOk))

LinkCreate(caller, w, productId, url) ==
    LET out == LinkCreateOutcome(caller, RoleOf(caller, w), w, productId, url)
        l == LowestFree(LinkIds \ ExistingLinks)
    IN  /\ out.status = 200 => LinkIds \ ExistingLinks # {}
        /\ resp' = Response("LINK_CREATE", caller, w, IF out.status = 200 THEN l ELSE Null,
                            out, {})
        /\ links' = IF out.status = 200
                    THEN [links EXCEPT
                            ![l] = [exists |-> TRUE, workspaceId |-> w,
                                    productId |-> productId, affiliateUrl |-> url]]
                    ELSE links
        /\ UNCHANGED <<workspaces, members, posts, postProducts, products, categories, browser, accounts, auth, inflight>>

\* GET /api/workspaces/[id]/affiliate-links/[linkId]
LinkGet(caller, w, l) ==
    LET out == Guarded(caller, verifyLinkAccess(RoleOf(caller, w), w, l), Outcome(200, MsgOk))
    IN  /\ resp' = Response("LINK_GET", caller, w, l, out,
                            IF out.status = 200 THEN LinkRows(l) ELSE {})
        /\ UNCHANGED <<workspaces, members, posts, postProducts, products,
                       categories, links, browser, accounts, auth, inflight>>

\* A link update body: NoUrl and Null for the fields the request leaves out.
LinkBody(affiliateUrl, productId) == [affiliateUrl |-> affiliateUrl, productId |-> productId]

\* PUT /api/workspaces/[id]/affiliate-links/[linkId]
LinkPutOutcome(caller, role, w, l, body) ==
    Guarded(caller, verifyLinkAccess(role, w, l),
        IF /\ body.affiliateUrl # NoUrl
           /\ \E x \in ExistingLinks \ {l} :
                 links[x].workspaceId = w /\ links[x].affiliateUrl = body.affiliateUrl
        THEN Outcome(400, MsgLinkUrlExists)
        ELSE IF body.productId # Null /\ body.productId \notin ExistingProducts
             THEN CatchThrown(MsgForeignKey, <<"Access", "denied">>)
        ELSE Outcome(200, MsgOk))

LinkPut(caller, w, l, body) ==
    LET out == LinkPutOutcome(caller, RoleOf(caller, w), w, l, body)
    IN  /\ resp' = Response("LINK_PUT", caller, w, l, out, {})
        /\ links' = IF out.status = 200
                    THEN [links EXCEPT
                            ![l].affiliateUrl = IF body.affiliateUrl # NoUrl
                                                THEN body.affiliateUrl ELSE @,
                            ![l].productId = IF body.productId # Null
                                             THEN body.productId ELSE @]
                    ELSE links
        /\ UNCHANGED <<workspaces, members, posts, postProducts, products, categories, browser, accounts, auth, inflight>>

\* DELETE /api/workspaces/[id]/affiliate-links/[linkId]
LinkDelete(caller, w, l) ==
    LET out == Guarded(caller, verifyLinkAccess(RoleOf(caller, w), w, l), Outcome(200, MsgOk))
    IN  /\ resp' = Response("LINK_DELETE", caller, w, l, out, {})
        /\ IF out.status = 200
           THEN /\ links' = [links EXCEPT ![l] = NoLink]
                /\ products' = ActiveFkSetNull(products, {l})
           ELSE UNCHANGED <<links, products>>
        /\ UNCHANGED <<workspaces, members, posts, postProducts, categories, browser, accounts, auth, inflight>>

SetActiveData_KeepsFirst(product, l) ==
    [product EXCEPT !.activeAffiliateLinkId = IF @ = Null THEN l ELSE @]

\* data: { activeAffiliateLinkId: linkId }
SetActiveData(product, l) ==
    [product EXCEPT !.activeAffiliateLinkId = l]

\* POST /api/workspaces/[id]/affiliate-links/[linkId]/set-active
SetActiveOutcome(caller, role, w, l) ==
    Guarded(caller, verifyLinkAccess(role, w, l),
        IF ActiveLinkIndexViolated(SetActiveData(products[links[l].productId], l)
                                      .activeAffiliateLinkId, {links[l].productId})
        THEN CatchThrown(MsgUniqueConstraint, <<"Access", "denied">>)
        ELSE Outcome(200, MsgOk))

\* The response carries the link as verifyLinkAccess loaded it, with its
\* product before the update: the reference the product held until now.
SetActiveRows(l) ==
    {Row("link", l)}
    \cup (IF products[links[l].productId].activeAffiliateLinkId # Null
          THEN {Row("previous", products[links[l].productId].activeAffiliateLinkId)}
          ELSE {})

SetActive(caller, w, l) ==
    LET out == SetActiveOutcome(caller, RoleOf(caller, w), w, l)
    IN  /\ resp' = Response("SET_ACTIVE", caller, w, l, out,
                            IF out.status = 200 THEN SetActiveRows(l) ELSE {})
        /\ products' = IF out.status = 200
                       THEN [products EXCEPT ![links[l].productId] = SetActiveData(@, l)]
                       ELSE products
        /\ UNCHANGED <<workspaces, members, posts, postProducts, categories, links, browser, accounts, auth, inflight>>

\* DELETE /api/workspaces/[id]/affiliate-links/[linkId]/set-active
ClearActive(caller, w, l) ==
    LET out == Guarded(caller, verifyLinkAccess(RoleOf(caller, w), w, l), Outcome(200, MsgOk))
    IN  /\ resp' = Response("CLEAR_ACTIVE", caller, w, l, out, {})
        /\ products' = IF out.status = 200 /\ IsActive(l)
                       THEN [products EXCEPT ![links[l].productId].activeAffiliateLinkId = Null]
                       ELSE products
        /\ UNCHANGED <<workspaces, members, posts, postProducts, categories, links, browser, accounts, auth, inflight>>

\* GET /api/workspaces/by-slug/[slug]: the findFirst query, over a store
BySlugMatches_AnyMember(wss, mem, caller, slug) ==
    {w \in WsIds : /\ wss[w].exists
                   /\ wss[w].slug = slug
                   /\ wss[w].deletedAt = Null}

BySlugMatches(wss, mem, caller, slug) ==
    {w \in WsIds : /\ wss[w].exists
                   /\ wss[w].slug = slug
                   /\ wss[w].deletedAt = Null
                   /\ mem[caller][w] # NoRole}

WsBySlugOutcome(wss, mem, caller, slug) ==
    IF caller = NoSession THEN Outcome(401, MsgUnauthorized)
    ELSE IF BySlugMatches(wss, mem, caller, slug) = {}
         THEN Outcome(404, MsgWorkspaceNotFound)
    ELSE Outcome(200, MsgOk)

\* workspaceData: the workspace, the caller's role, and the two counts
WsBySlugRows(wss, mem, caller, slug) ==
    LET w == CHOOSE x \in BySlugMatches(wss, mem, caller, slug) : TRUE
    IN  {Row("workspace", w),
         Row("role", mem[caller][w]),
         Row("memberCount", Cardinality({u \in Users : mem[u][w] # NoRole})),
         Row("postCount", Cardinality({q \in PostIds : /\ posts[q].exists
                                                        /\ posts[q].workspaceId = w
                                                        /\ posts[q].deletedAt = Null}))}

WsBySlugResponse(wss, mem, caller, slug) ==
    LET out == WsBySlugOutcome(wss, mem, caller, slug)
    IN  [Response("WS_BY_SLUG", caller, Null, Null, out,
                  IF out.status = 200 THEN WsBySlugRows(wss, mem, caller, slug) ELSE {})
         EXCEPT !.slug = slug,
                !.counts = IF out.status = 200
                           THEN LET w == CHOOSE x \in BySlugMatches(wss, mem, caller, slug) : TRUE
                                IN  {<<w, Cardinality({q \in PostIds :
                                             /\ posts[q].exists
                                             /\ posts[q].workspaceId = w
                                             /\ posts[q].deletedAt = Null})>>}
                           ELSE {}]

WsBySlugStore(caller, slug) ==
    /\ resp' = WsBySlugResponse(workspaces, members, caller, slug)
    /\ UNCHANGED <<workspaces, members, posts, postProducts, products,
                   categories, links>>

WsBySlug(caller, slug) ==
    WsBySlugStore(caller, slug) /\ UNCHANGED <<browser, accounts, auth, inflight>>

\* WorkspaceDashboardPage at /[slug]/dashboard: useCurrentWorkspace fetches
\* the workspace by slug, and the effect stores its slug once it is there.
DashboardPage(caller, slug) ==
    /\ WsBySlugStore(caller, slug)
    /\ browser' = IF resp'.status = 200
                  THEN [browser EXCEPT !.localStorage = slug]
                  ELSE browser
    /\ UNCHANGED <<accounts, auth, inflight>>

\* CreateWorkspaceForm.onSubmit: createWorkspace(data) throws unless the
\* response is ok; then the form's own slug is stored (data.slug || "").
CreateWorkspaceSubmit(caller, name, providedSlug, suffix) ==
    /\ WsCreateStore(caller, name, providedSlug, suffix)
    /\ browser' = IF resp'.status = 200
                  THEN [browser EXCEPT !.localStorage =
                            IF Truthy(providedSlug) THEN providedSlug ELSE <<>>]
                  ELSE browser
    /\ UNCHANGED <<accounts, auth, inflight>>

\* ------------------------------------------------------------ middleware
PlatformRoles == {"USER", "ADMIN", "SUPER_ADMIN"}

\* Paths as character sequences, like slugs.
PathRoot == <<"/">>
PathSignin ==
    <<"/", "a", "u", "t", "h", "/", "s", "i", "g", "n", "i", "n">>
PathSignup ==
    <<"/", "a", "u", "t", "h", "/", "s", "i", "g", "n", "u", "p">>
PathDashboard == <<"/", "d", "a", "s", "h", "b", "o", "a", "r", "d">>
PathAdmin == <<"/", "a", "d", "m", "i", "n">>
PathAdminUsers == <<"/", "a", "d", "m", "i", "n", "/", "u", "s", "e", "r", "s">>
PathSettings == <<"/", "s", "e", "t", "t", "i", "n", "g", "s">>

\* `/${targetWorkspace.slug}/dashboard`
WorkspaceDashboardPath(slug) == <<"/">> \o slug \o PathDashboard

publicRoutes_WithSettings == {PathRoot, PathSignin, PathSignup, PathSettings}

publicRoutes == {PathRoot, PathSignin, PathSignup}

StartsWith(path, prefix) ==
    Len(path) >= Len(prefix) /\ SubSeq(path, 1, Len(prefix)) = prefix

\* The rows GET /api/workspaces returns, in its order (createdAt desc).
RECURSIVE ByCreatedDesc(_)
ByCreatedDesc(S) ==
    IF S = {} THEN <<>>
    ELSE LET w == CHOOSE x \in S : \A y \in S : workspaces[y].createdAt <= workspaces[x].createdAt
         IN  <<w>> \o ByCreatedDesc(S \ {w})

WsListRows_WithDeleted(user) ==
    ByCreatedDesc({w \in ExistingWs : RoleOf(user, w) # NoRole})

WsListRows(user) ==
    ByCreatedDesc({w \in ExistingWs : /\ RoleOf(user, w) # NoRole
                                      /\ workspaces[w].deletedAt = Null})

\* workspaces.find((w) => w.slug === lastWorkspace), Null for undefined
RECURSIVE FindBySlug(_, _)
FindBySlug(list, slug) ==
    IF list = <<>> THEN Null
    ELSE IF workspaces[Head(list)].slug = slug THEN Head(list)
    ELSE FindBySlug(Tail(list), slug)

targetWorkspace(list, lastWorkspace) ==
    IF Truthy(lastWorkspace)
    THEN (IF FindBySlug(list, lastWorkspace) # Null
          THEN FindBySlug(list, lastWorkspace)
          ELSE list[1])
    ELSE list[1]

FetchOutcomes == {"ok", "not_ok", "throws"}

Redirect(path) == [answer |-> "redirect", location |-> path]

Proceed(path) == [answer |-> "next", location |-> path]

MiddlewareAnswer_IgnoresFetch(session, pathname, cookie, fetch) ==
    IF session = AnonymousSession /\ pathname \notin publicRoutes
    THEN Redirect(PathSignin)
    ELSE IF session # AnonymousSession /\ pathname \in {PathSignin, PathSignup}
         THEN Redirect(PathDashboard)
    ELSE IF /\ session # AnonymousSession
            /\ pathname = PathDashboard
            /\ Len(WsListRows(session.user)) > 0
         THEN Redirect(WorkspaceDashboardPath(
                  workspaces[targetWorkspace(WsListRows(session.user), cookie)].slug))
    ELSE IF /\ session # AnonymousSession
            /\ StartsWith(pathname, PathAdmin)
            /\ session.role \notin {"ADMIN", "SUPER_ADMIN"}
         THEN Redirect(PathDashboard)
    ELSE Proceed(pathname)

MiddlewareAnswer(session, pathname, cookie, fetch) ==
    IF session = AnonymousSession /\ pathname \notin publicRoutes
    THEN Redirect(PathSignin)
    ELSE IF session # AnonymousSession /\ pathname \in {PathSignin, PathSignup}
         THEN Redirect(PathDashboard)
    ELSE IF /\ session # AnonymousSession
            /\ pathname = PathDashboard
            /\ fetch = "ok"
            /\ Len(WsListRows(session.user)) > 0
         THEN Redirect(WorkspaceDashboardPath(
                  workspaces[targetWorkspace(WsListRows(session.user), cookie)].slug))
    ELSE IF /\ session # AnonymousSession
            /\ StartsWith(pathname, PathAdmin)
            /\ session.role \notin {"ADMIN", "SUPER_ADMIN"}
         THEN Redirect(PathDashboard)
    ELSE Proceed(pathname)

\* middleware(request) on one request; chain is the set of paths the
\* browser has requested since the user navigated.
MiddlewareRequest(session, pathname, fetch, chain) ==
    LET a == MiddlewareAnswer(session, pathname, browser.cookie, fetch)
    IN  /\ browser' = [browser EXCEPT !.session = session, !.pathname = pathname,
                                      !.fetch = IF session # AnonymousSession
                                                   /\ pathname = PathDashboard
                                                THEN fetch ELSE "none",
                                      !.answer = a.answer, !.location = a.location,
                                      !.chain = chain]
        /\ UNCHANGED <<workspaces, members, posts, postProducts, products,
                       categories, links, resp, accounts, auth, inflight>>

\* The user navigates to a page.
Middleware(session, pathname, fetch) ==
    MiddlewareRequest(session, pathname, fetch, {pathname})

\* The browser follows a redirect: a request for the new location with the
\* same session.  It gives up on a location it has already requested.
FollowRedirect(fetch) ==
    /\ browser.answer = "redirect"
    /\ browser.location \notin browser.chain
    /\ MiddlewareRequest(browser.session, browser.location, fetch,
                         browser.chain \cup {browser.location})

\* The page the router serves for a path: /dashboard and below have
\* DashboardLayout, /admin and below AdminLayout.
UnderRoute(path, route) ==
    path = route \/ StartsWith(path, route \o <<"/">>)

DashboardLayout(session) ==
    IF session = AnonymousSession THEN Redirect(PathSignin)
    ELSE IF session.role \in {"ADMIN", "SUPER_ADMIN"} THEN Redirect(PathAdmin)
    ELSE [answer |-> "render", location |-> PathDashboard]

AdminLayout(session, path) ==
    IF session = AnonymousSession THEN Redirect(PathSignin)
    ELSE IF session.role \notin {"ADMIN", "SUPER_ADMIN"} THEN Redirect(PathDashboard)
    ELSE [answer |-> "render", location |-> path]

\* The request passed the middleware and the page is rendered on the server.
RenderPage ==
    LET a == IF UnderRoute(browser.location, PathDashboard)
             THEN DashboardLayout(browser.session)
             ELSE IF UnderRoute(browser.location, PathAdmin)
                  THEN AdminLayout(browser.session, browser.location)
             ELSE [answer |-> "render", location |-> browser.location]
    IN  /\ browser.answer = "next"
        /\ browser' = [browser EXCEPT !.answer = a.answer, !.location = a.location]
        /\ UNCHANGED <<workspaces, members, posts, postProducts, products,
                       categories, links, resp, accounts, auth, inflight>>

\* --------------------------------------------------------------- sign-in
bcryptCompare_AlwaysTrue(password, hash) == TRUE

bcryptCompare(password, hash) == hash = Hash(password)

\* prisma.user.findUnique({ where: { email } })
FindUserByEmail(email) ==
    {u \in Users : accounts[u].exists /\ accounts[u].email = email}

\* authorize(credentials): "" stands for a credential that is missing or
\* empty; storeOk = FALSE for a lookup that throws (caught, null returned).
authorize(email, password, storeOk) ==
    IF email = "" \/ password = "" THEN NoPrincipal
    ELSE IF ~storeOk THEN NoPrincipal
    ELSE IF FindUserByEmail(email) = {} THEN NoPrincipal
    ELSE LET u == CHOOSE x \in FindUserByEmail(email) : TRUE
         IN  IF accounts[u].password = NoHash THEN NoPrincipal
             ELSE IF ~bcryptCompare(password, accounts[u].password) THEN NoPrincipal
             ELSE [id |-> u, email |-> accounts[u].email, name |-> accounts[u].name,
                   role |-> accounts[u].role]

\* callbacks.jwt and callbacks.session: token.sub and token.role
SessionOf(principal) ==
    IF principal = NoPrincipal THEN AnonymousSession
    ELSE Session(principal.id, principal.role)

Authorize(email, password, storeOk) ==
    /\ auth' = [called |-> TRUE, email |-> email, password |-> password,
                storeOk |-> storeOk,
                principal |-> authorize(email, password, storeOk),
                session |-> SessionOf(authorize(email, password, storeOk))]
    /\ UNCHANGED <<workspaces, members, posts, postProducts, products,
                   categories, links, resp, browser, accounts, inflight>>

\* -------------------------------------------------- interleaved requests
\* A handler awaits each query, so another request's statements can run
\* between its reads and its write.  The steps below split a handler there.

\* DELETE .../set-active, up to the end of verifyLinkAccess: the link is
\* loaded with its product.  A request that fails here is answered at once.
ClearActiveRead(caller, w, l, slot) ==
    LET out == Guarded(caller, verifyLinkAccess(RoleOf(caller, w), w, l), Outcome(200, MsgOk))
    IN  /\ inflight[slot] = NoRequest
        /\ IF out.status = 200
           THEN /\ inflight' = [inflight EXCEPT ![slot] =
                       Request("CLEAR_ACTIVE", caller, w, l, <<>>, links[l].productId,
                               products[links[l].productId].activeAffiliateLinkId)]
                /\ UNCHANGED resp
           ELSE /\ resp' = Response("CLEAR_ACTIVE", caller, w, l, out, {})
                /\ UNCHANGED inflight
        /\ UNCHANGED <<workspaces, members, posts, postProducts, products,
                       categories, links, browser, accounts, auth>>

\* if (affiliateLink.product.activeAffiliateLinkId === linkId) update ...
\* on the product as it was loaded; an update of a product that is gone
\* throws and changes nothing.
ClearActiveWriteData(req) ==
    IF req.seen = req.id /\ products[req.product].exists
    THEN [products EXCEPT ![req.product].activeAffiliateLinkId = Null]
    ELSE products

ClearActiveWrite(slot) ==
    LET req == inflight[slot]
        out == IF req.seen = req.id /\ ~products[req.product].exists
               THEN Thrown(500, MsgInternal, <<"Record", "not", "found">>)
               ELSE Outcome(200, MsgOk)
    IN  /\ req.op = "CLEAR_ACTIVE"
        /\ products' = ClearActiveWriteData(req)
        /\ resp' = Response("CLEAR_ACTIVE", req.caller, req.ws, req.id, out, {})
        /\ inflight' = [inflight EXCEPT ![slot] = NoRequest]
        /\ UNCHANGED <<workspaces, members, posts, postProducts, categories, links,
                       browser, accounts, auth>>

MsgRecordNotFound == <<"Record", "to", "update", "or", "delete", "not", "found">>

\* Category DELETE up to and including product.count.
CategoryDeleteRead(caller, w, c, slot) ==
    LET out == CategoryDeleteOutcome(caller, RoleOf(caller, w), w, c)
    IN  /\ inflight[slot] = NoRequest
        /\ IF out.status = 200
           THEN /\ inflight' = [inflight EXCEPT ![slot] =
                       Request("CAT_DELETE", caller, w, c, <<>>, Null,
                               CategoryProductCount(w, c))]
                /\ UNCHANGED resp
           ELSE /\ resp' = Response("CAT_DELETE", caller, w, c, out, {})
                /\ UNCHANGED inflight
        /\ UNCHANGED <<workspaces, members, posts, postProducts, products,
                       categories, links, browser, accounts, auth>>

\* prisma.category.delete({where: {id}}), with the store's ON DELETE SET NULL
CategoryDeleteWrite(slot) ==
    LET req == inflight[slot]
        out == IF categories[req.id].exists THEN Outcome(200, MsgOk)
               ELSE Thrown(500, MsgInternal, MsgRecordNotFound)
    IN  /\ req.op = "CAT_DELETE"
        /\ resp' = Response("CAT_DELETE", req.caller, req.ws, req.id, out, {})
        /\ IF out.status = 200
           THEN /\ categories' = [categories EXCEPT ![req.id] = NoCategory]
                /\ products' = CategoryFkSetNull(req.id)
           ELSE UNCHANGED <<categories, products>>
        /\ inflight' = [inflight EXCEPT ![slot] = NoRequest]
        /\ UNCHANGED <<workspaces, members, posts, postProducts, links,
                       browser, accounts, auth>>

\* Category POST up to and including the findFirst on the name.
CategoryCreateRead(caller, w, name, slot) ==
    LET out == CategoryCreateOutcome(caller, RoleOf(caller, w), w, name)
    IN  /\ inflight[slot] = NoRequest
        /\ IF out.status = 200
           THEN /\ inflight' = [inflight EXCEPT ![slot] =
                       Request("CAT_CREATE", caller, w, Null, name, Null, Null)]
                /\ UNCHANGED resp
           ELSE /\ resp' = Response("CAT_CREATE", caller, w, Null, out, {})
                /\ UNCHANGED inflight
        /\ UNCHANGED <<workspaces, members, posts, postProducts, products,
                       categories, links, browser, accounts, auth>>

\* prisma.category.create: the table has no unique index on the name.
CategoryCreateWrite(slot) ==
    LET req == inflight[slot]
        c == LowestFree(CategoryIds \ ExistingCategories)
    IN  /\ req.op = "CAT_CREATE"
        /\ CategoryIds \ ExistingCategories # {}
        /\ resp' = Response("CAT_CREATE", req.caller, req.ws, c, Outcome(200, MsgOk), {})
        /\ categories' = [categories EXCEPT
                            ![c] = [exists |-> TRUE, workspaceId |-> req.ws,
                                    name |-> req.name]]
        /\ inflight' = [inflight EXCEPT ![slot] = NoRequest]
        /\ UNCHANGED <<workspaces, members, posts, postProducts, products, links,
                       browser, accounts, auth>>

\* Category PUT up to and including the findFirst on the new name.
CategoryPutRead(caller, w, c, name, slot) ==
    LET out == CategoryPutOutcome(caller, RoleOf(caller, w), w, c, name)
    IN  /\ inflight[slot] = NoRequest
        /\ IF out.status = 200
           THEN /\ inflight' = [inflight EXCEPT ![slot] =
                       Request("CAT_PUT", caller, w, c, name, Null, Null)]
                /\ UNCHANGED resp
           ELSE /\ resp' = Response("CAT_PUT", caller, w, c, out, {})
                /\ UNCHANGED inflight
        /\ UNCHANGED <<workspaces, members, posts, postProducts, products,
                       categories, links, browser, accounts, auth>>

\* prisma.category.update({where: {id}, data})
CategoryPutWrite(slot) ==
    LET req == inflight[slot]
        out == IF categories[req.id].exists THEN Outcome(200, MsgOk)
               ELSE Thrown(500, MsgInternal, MsgRecordNotFound)
    IN  /\ req.op = "CAT_PUT"
        /\ resp' = Response("CAT_PUT", req.caller, req.ws, req.id, out, {})
        /\ categories' = IF out.status = 200 /\ req.name # Undefined
                         THEN [categories EXCEPT ![req.id].name = req.name]
                         ELSE categories
        /\ inflight' = [inflight EXCEPT ![slot] = NoRequest]
        /\ UNCHANGED <<workspaces, members, posts, postProducts, products, links,
                       browser, accounts, auth>>

\* ------------------------------------------------------- specifications
SeedSlug == <<"a", "b", "-", "c">>

InitWs ==
    /\ workspaces = [w \in WsIds |->
          IF w = 1
          THEN [exists |-> TRUE, name |-> <<"A", "b", " ", "c">>, slug |-> SeedSlug,
                deletedAt |-> Null, createdAt |-> 1, updatedAt |-> 1]
          ELSE NoWorkspace]
    /\ \E r \in Roles \cup {NoRole} :
          members = [u \in Users |-> [w \in WsIds |->
              IF w = 1 THEN (IF u = "u2" THEN "OWNER" ELSE r) ELSE NoRole]]
    /\ posts = [p \in PostIds |-> NoPost]
    /\ postProducts = {}
    /\ products = [p \in ProductIds |-> NoProduct]
    /\ categories = [c \in CategoryIds |-> NoCategory]
    /\ links = [l \in LinkIds |-> NoLink]
    /\ resp = NoResponse
    /\ browser = NoBrowser
    /\ accounts = SeedAccounts
    /\ auth = NoAuth
    /\ inflight = [i \in Slots |-> NoRequest]

BySlugPool == {SeedSlug, <<"z", "z", "z">>}

NextWs ==
    \/ \E c \in Callers, w \in WsIds : WsGet(c, w)
    \/ \E c \in Callers, w \in WsIds, body \in WsPutBodies : WsPut(c, w, body)
    \/ \E c \in Callers, w \in WsIds : WsDelete(c, w)
    \/ \E c \in Callers : WsList(c)
    \/ \E c \in Callers, n \in TitlePool, s \in SlugPool, x \in RandomSuffixes :
          WsCreate(c, n, s, x)
    \/ \E c \in Callers, s \in BySlugPool : WsBySlug(c, s)

SpecWs == InitWs /\ [][NextWs]_vars

\* Posts: two seeded workspaces, each with one product; u1 is a MEMBER of the
\* first and an ADMIN of, or a stranger to, the second.
PostTitle == <<"A", "b", " ", "c">>

PostCreateBodies ==
    { PostBody(PostTitle, Undefined, JsFalse, Undefined, AbsentIds),
      PostBody(PostTitle, Undefined, JsFalse, Undefined, {1}),
      PostBody(PostTitle, Undefined, JsFalse, Undefined, {1, 2}),
      PostBody(<<>>, Undefined, JsFalse, Undefined, AbsentIds) }

PostPutBodies ==
    { PostBody(PostTitle, Undefined, Undefined, Undefined, AbsentIds),
      PostBody(Undefined, <<"x", "y", "1">>, Undefined, Undefined, {1, 2}),
      PostBody(Undefined, Undefined, Undefined, Undefined, {1}),
      PostBody(Undefined, Undefined, Undefined, Undefined, {}) }

SeedWorkspace(slug, at) ==
    [exists |-> TRUE, name |-> <<"A", "b", " ", "c">>, slug |-> slug, deletedAt |-> Null,
     createdAt |-> at, updatedAt |-> at]

InitPost ==
    /\ workspaces = [w \in WsIds |->
          IF w = 1 THEN SeedWorkspace(SeedSlug, 1)
          ELSE IF w = 2 THEN SeedWorkspace(<<"x", "y", "1">>, 2)
          ELSE NoWorkspace]
    /\ \E r \in {"ADMIN", NoRole} :
          members = [u \in Users |-> [w \in WsIds |->
              IF w > 2 THEN NoRole
              ELSE IF u = "u2" THEN "OWNER"
              ELSE IF w = 1 THEN "MEMBER" ELSE r]]
    /\ posts = [p \in PostIds |-> NoPost]
    /\ postProducts = {}
    /\ products = [p \in ProductIds |->
          IF p <= 2
          THEN [exists |-> TRUE, workspaceId |-> p, categoryId |-> Null,
                activeAffiliateLinkId |-> Null]
          ELSE NoProduct]
    /\ categories = [c \in CategoryIds |-> NoCategory]
    /\ links = [l \in LinkIds |-> NoLink]
    /\ resp = NoResponse
    /\ browser = NoBrowser
    /\ accounts = SeedAccounts
    /\ auth = NoAuth
    /\ inflight = [i \in Slots |-> NoRequest]

NextPost ==
    \/ \E c \in Callers, w \in WsIds : PostList(c, w)
    \/ \E c \in Callers, w \in WsIds, body \in PostCreateBodies :
          PostCreate(c, w, body)
    \/ \E c \in Callers, w \in WsIds, p \in PostIds : PostGet(c, w, p)
    \/ \E c \in Callers, w \in WsIds, p \in PostIds, body \in PostPutBodies :
          PostPut(c, w, p, body)
    \/ \E c \in Callers, w \in WsIds, p \in PostIds : PostDelete(c, w, p)

SpecPost == InitPost /\ [][NextPost]_vars

\* Categories and products: two seeded workspaces; u1 is a MEMBER of the
\* first and a MEMBER of, or a stranger to, the second.
CategoryNames == {<<"L">>, <<>>}

CategoryPutNames == {<<"L">>, Undefined}

ProductBodies ==
    {ProductBody(<<"P">>, c, Null) : c \in {Null} \cup CategoryIds}
    \cup {ProductBody(<<>>, Null, Null), ProductBody(<<"P">>, Null, 1)}

ProductPutBodies ==
    {ProductBody(Undefined, c, Null) : c \in {Null} \cup CategoryIds}

InitCat ==
    /\ workspaces = [w \in WsIds |->
          IF w = 1 THEN SeedWorkspace(SeedSlug, 1)
          ELSE IF w = 2 THEN SeedWorkspace(<<"x", "y", "1">>, 2)
          ELSE NoWorkspace]
    /\ \E r \in {"MEMBER", NoRole} :
          members = [u \in Users |-> [w \in WsIds |->
              IF w > 2 THEN NoRole
              ELSE IF u = "u2" THEN "OWNER"
              ELSE IF w = 1 THEN "MEMBER" ELSE r]]
    /\ posts = [p \in PostIds |-> NoPost]
    /\ postProducts = {}
    /\ products = [p \in ProductIds |-> NoProduct]
    /\ categories = [c \in CategoryIds |-> NoCategory]
    /\ links = [l \in LinkIds |-> NoLink]
    /\ resp = NoResponse
    /\ browser = NoBrowser
    /\ accounts = SeedAccounts
    /\ auth = NoAuth
    /\ inflight = [i \in Slots |-> NoRequest]

NextCat ==
    \/ \E c \in Callers, w \in WsIds : CategoryList(c, w)
    \/ \E c \in Callers, w \in WsIds, name \in CategoryNames : CategoryCreate(c, w, name)
    \/ \E c \in Callers, w \in WsIds, cat \in CategoryIds : CategoryGet(c, w, cat)
    \/ \E c \in Callers, w \in WsIds, cat \in CategoryIds, name \in CategoryPutNames :
          CategoryPut(c, w, cat, name)
    \/ \E c \in Callers, w \in WsIds, cat \in CategoryIds : CategoryDelete(c, w, cat)
    \/ \E c \in Callers, w \in WsIds : ProductList(c, w)
    \/ \E c \in Callers, w \in WsIds, body \in ProductBodies : ProductCreate(c, w, body)
    \/ \E c \in Callers, w \in WsIds, p \in ProductIds : ProductGet(c, w, p)
    \/ \E c \in Callers, w \in WsIds, p \in ProductIds, body \in ProductPutBodies :
          ProductPut(c, w, p, body)
    \/ \E c \in Callers, w \in WsIds, p \in ProductIds : ProductDelete(c, w, p)

SpecCat == InitCat /\ [][NextCat]_vars

\* Affiliate links: two seeded workspaces with one product each; u1 is a
\* MEMBER of both.
UrlPool == {"u", "v"}

LinkPutBodies == {LinkBody("v", Null), LinkBody(NoUrl, 2)}

ProductActiveBodies == {ProductBody(Undefined, Null, l) : l \in LinkIds}

InitLink ==
    /\ workspaces = [w \in WsIds |->
          IF w = 1 THEN SeedWorkspace(SeedSlug, 1)
          ELSE IF w = 2 THEN SeedWorkspace(<<"x", "y", "1">>, 2)
          ELSE NoWorkspace]
    /\ members = [u \in Users |-> [w \in WsIds |->
          IF w > 2 THEN NoRole
          ELSE IF u = "u2" THEN "OWNER" ELSE "MEMBER"]]
    /\ posts = [p \in PostIds |-> NoPost]
    /\ postProducts = {}
    /\ products = [p \in ProductIds |->
          IF p <= 2
          THEN [exists |-> TRUE, workspaceId |-> p, categoryId |-> Null,
                activeAffiliateLinkId |-> Null]
          ELSE NoProduct]
    /\ categories = [c \in CategoryIds |-> NoCategory]
    /\ links = [l \in LinkIds |-> NoLink]
    /\ resp = NoResponse
    /\ browser = NoBrowser
    /\ accounts = SeedAccounts
    /\ auth = NoAuth
    /\ inflight = [i \in Slots |-> NoRequest]

NextLink ==
    \/ \E c \in Callers, w \in WsIds : LinkList(c, w)
    \/ \E c \in Callers, w \in WsIds, p \in ProductIds, url \in UrlPool :
          LinkCreate(c, w, p, url)
    \/ \E c \in Callers, w \in WsIds, l \in LinkIds : LinkGet(c, w, l)
    \/ \E c \in Callers, w \in WsIds, l \in LinkIds, body \in LinkPutBodies :
          LinkPut(c, w, l, body)
    \/ \E c \in Callers, w \in WsIds, l \in LinkIds : LinkDelete(c, w, l)
    \/ \E c \in Callers, w \in WsIds, l \in LinkIds : SetActive(c, w, l)
    \/ \E c \in Callers, w \in WsIds, l \in LinkIds : ClearActive(c, w, l)
    \/ \E c \in Callers, w \in WsIds, p \in ProductIds, body \in ProductActiveBodies :
          ProductPut(c, w, p, body)
    \/ \E c \in Callers, w \in WsIds, p \in ProductIds : ProductDelete(c, w, p)

SpecLink == InitLink /\ [][NextLink]_vars


\* Middleware and the browser.  The stored cookie is whatever the client
\* sends: nothing in the program writes it.
TokenPool == {NoToken, SeedSlug, <<"z", "z", "z">>}

Sessions == {AnonymousSession} \cup {Session("u1", r) : r \in PlatformRoles}

PathPool ==
    {PathRoot, PathSignin, PathSignup, PathDashboard, PathAdminUsers, PathSettings}

MwCreateSlugs == {<<"x", "y", "1">>}

\* A PUT that writes the name the workspace already has.
MwRename == [name |-> <<"A", "b", " ", "c">>, slug |-> Undefined]

InitMw ==
    /\ workspaces = [w \in WsIds |->
          IF w = 1 THEN SeedWorkspace(SeedSlug, 1) ELSE NoWorkspace]
    /\ \E r \in {"OWNER", NoRole} :
          members = [u \in Users |-> [w \in WsIds |->
              IF w = 1 THEN (IF u = "u2" THEN "OWNER" ELSE r) ELSE NoRole]]
    /\ posts = [p \in PostIds |-> NoPost]
    /\ postProducts = {}
    /\ products = [p \in ProductIds |-> NoProduct]
    /\ categories = [c \in CategoryIds |-> NoCategory]
    /\ links = [l \in LinkIds |-> NoLink]
    /\ resp = NoResponse
    /\ \E t \in TokenPool : browser = [NoBrowser EXCEPT !.cookie = t]
    /\ accounts = SeedAccounts
    /\ auth = NoAuth
    /\ inflight = [i \in Slots |-> NoRequest]

NextMw ==
    \/ \E session \in Sessions, pathname \in PathPool, fetch \in FetchOutcomes :
          Middleware(session, pathname, fetch)
    \/ \E s \in {SeedSlug} \cup MwCreateSlugs : DashboardPage("u1", s)
    \/ \E s \in MwCreateSlugs, x \in RandomSuffixes :
          CreateWorkspaceSubmit("u1", <<"A", "b", " ", "c">>, s, x)
    \/ \E w \in WsIds : WsPut("u1", w, MwRename)
    \/ \E w \in WsIds : WsDelete("u1", w)

SpecMw == InitMw /\ [][NextMw]_vars


\* Sign-in: user rows and credentials drawn from small pools.
EmailPool == {"", "a@x", "b@x", "A@x"}

PasswordPool == {"", "p", "q"}

InitAuth ==
    /\ workspaces = [w \in WsIds |-> NoWorkspace]
    /\ members = [u \in Users |-> [w \in WsIds |-> NoRole]]
    /\ posts = [p \in PostIds |-> NoPost]
    /\ postProducts = {}
    /\ products = [p \in ProductIds |-> NoProduct]
    /\ categories = [c \in CategoryIds |-> NoCategory]
    /\ links = [l \in LinkIds |-> NoLink]
    /\ resp = NoResponse
    /\ browser = NoBrowser
    /\ \E h1 \in {NoHash, Hash("p")}, r \in PlatformRoles,
          second \in {NoAccount, Account("b@x", Hash("q"), "Bob", "USER"),
                      Account("b@x", Hash("p"), "Bob", "ADMIN")} :
          accounts = [u \in Users |-> IF u = "u1" THEN Account("a@x", h1, "Ann", r)
                                      ELSE second]
    /\ auth = NoAuth
    /\ inflight = [i \in Slots |-> NoRequest]

NextAuth ==
    \E email \in EmailPool, password \in PasswordPool, storeOk \in BOOLEAN :
        Authorize(email, password, storeOk)

SpecAuth == InitAuth /\ [][NextAuth]_vars


\* Set-active and clear-active requests running concurrently on one
\* product with two links.
InitClearRace ==
    /\ workspaces = [w \in WsIds |->
          IF w = 1 THEN SeedWorkspace(SeedSlug, 1) ELSE NoWorkspace]
    /\ \E r \in {"MEMBER", NoRole} :
          members = [u \in Users |-> [w \in WsIds |->
              IF w = 1 THEN (IF u = "u2" THEN "OWNER" ELSE r) ELSE NoRole]]
    /\ posts = [p \in PostIds |-> NoPost]
    /\ postProducts = {}
    /\ \E a \in {Null, 1} :
          products = [p \in ProductIds |->
              IF p = 1
              THEN [exists |-> TRUE, workspaceId |-> 1, categoryId |-> Null,
                    activeAffiliateLinkId |-> a]
              ELSE NoProduct]
    /\ categories = [c \in CategoryIds |-> NoCategory]
    /\ links = [l \in LinkIds |->
          IF l <= 2
          THEN [exists |-> TRUE, workspaceId |-> 1, productId |-> 1,
                affiliateUrl |-> IF l = 1 THEN "u" ELSE "v"]
          ELSE NoLink]
    /\ resp = NoResponse
    /\ browser = NoBrowser
    /\ accounts = SeedAccounts
    /\ auth = NoAuth
    /\ inflight = [i \in Slots |-> NoRequest]

NextClearRace ==
    \/ \E c \in Callers, w \in WsIds, l \in LinkIds : SetActive(c, w, l)
    \/ \E c \in Callers, w \in WsIds, l \in LinkIds, slot \in Slots :
          ClearActiveRead(c, w, l, slot)
    \/ \E slot \in Slots : ClearActiveWrite(slot)
    \/ \E c \in Callers, w \in WsIds, l \in LinkIds : LinkDelete(c, w, l)

SpecClearRace == InitClearRace /\ [][NextClearRace]_vars


\* Category requests running concurrently with each other and with product
\* updates that assign a category.
RaceNames == {<<"L">>}

RaceProductBodies == {ProductBody(Undefined, 1, Null)}

InitCatRace ==
    /\ workspaces = [w \in WsIds |->
          IF w = 1 THEN SeedWorkspace(SeedSlug, 1)
          ELSE IF w = 2 THEN SeedWorkspace(<<"x", "y", "1">>, 2)
          ELSE NoWorkspace]
    /\ members = [u \in Users |-> [w \in WsIds |->
          IF w > 2 THEN NoRole
          ELSE IF u = "u2" THEN "OWNER" ELSE "MEMBER"]]
    /\ posts = [p \in PostIds |-> NoPost]
    /\ postProducts = {}
    /\ products = [p \in ProductIds |->
          IF p = 1
          THEN [exists |-> TRUE, workspaceId |-> 1, categoryId |-> Null,
                activeAffiliateLinkId |-> Null]
          ELSE NoProduct]
    /\ \E seeded \in {NoCategory, [exists |-> TRUE, workspaceId |-> 1, name |-> <<"M">>]} :
          categories = [c \in CategoryIds |-> IF c = 1 THEN seeded ELSE NoCategory]
    /\ links = [l \in LinkIds |-> NoLink]
    /\ resp = NoResponse
    /\ browser = NoBrowser
    /\ accounts = SeedAccounts
    /\ auth = NoAuth
    /\ inflight = [i \in Slots |-> NoRequest]

NextCatRace ==
    \/ \E c \in Callers, w \in WsIds, cat \in CategoryIds, slot \in Slots :
          CategoryDeleteRead(c, w, cat, slot)
    \/ \E slot \in Slots : CategoryDeleteWrite(slot)
    \/ \E c \in Callers, w \in WsIds, name \in RaceNames, slot \in Slots :
          CategoryCreateRead(c, w, name, slot)
    \/ \E slot \in Slots : CategoryCreateWrite(slot)
    \/ \E c \in Callers, w \in WsIds, cat \in CategoryIds, name \in RaceNames, slot \in Slots :
          CategoryPutRead(c, w, cat, name, slot)
    \/ \E slot \in Slots : CategoryPutWrite(slot)
    \/ \E c \in Callers, w \in WsIds, p \in ProductIds, body \in RaceProductBodies :
          ProductPut(c, w, p, body)

SpecCatRace == InitCatRace /\ [][NextCatRace]_vars


\* Reads of workspaces and products after posts were created and deleted.
ReadPostBodies ==
    { PostBody(PostTitle, Undefined, JsFalse, Undefined, AbsentIds),
      PostBody(PostTitle, Undefined, JsFalse, Undefined, {1}) }

NextRead ==
    \/ \E c \in Callers, w \in WsIds, body \in ReadPostBodies : PostCreate(c, w, body)
    \/ \E c \in Callers, w \in WsIds, p \in PostIds : PostDelete(c, w, p)
    \/ \E c \in Callers : WsList(c)
    \/ \E c \in Callers, w \in WsIds : WsGet(c, w)
    \/ \E c \in Callers, slug \in BySlugPool : WsBySlug(c, slug)
    \/ \E c \in Callers, w \in WsIds, p \in ProductIds : ProductGet(c, w, p)

SpecRead == InitPost /\ [][NextRead]_vars


\* Publishing: posts are created as drafts or published, then published,
\* unpublished, or given a publish timestamp alone.
PublishCreateBodies ==
    { PostBody(PostTitle, Undefined, JsFalse, Undefined, AbsentIds),
      PostBody(PostTitle, Undefined, JsTrue, Undefined, AbsentIds) }

PublishPutBodies ==
    { PostBody(Undefined, Undefined, JsTrue, Undefined, AbsentIds),
      PostBody(Undefined, Undefined, JsFalse, Undefined, AbsentIds),
      PostBody(Undefined, Undefined, Undefined, ToISOString(1), AbsentIds) }

NextPublish ==
    \/ \E c \in Callers, w \in WsIds, body \in PublishCreateBodies : PostCreate(c, w, body)
    \/ \E c \in Callers, w \in WsIds, p \in PostIds, body \in PublishPutBodies :
          PostPut(c, w, p, body)
    \/ \E c \in Callers, w \in WsIds, p \in PostIds : PostGet(c, w, p)

SpecPublish == InitPost /\ [][NextPublish]_vars


\* Redirect chains: the user navigates, the browser follows redirects, the
\* layouts render.  The user can create a workspace with a slug of their
\* choice first.
ChainSlugs == {<<"a", "d", "m", "i", "n">>, <<"x", "y", "1">>}

InitChain ==
    /\ workspaces = [w \in WsIds |->
          IF w = 1 THEN SeedWorkspace(SeedSlug, 1) ELSE NoWorkspace]
    /\ members = [u \in Users |-> [w \in WsIds |->
          IF w = 1 /\ u = "u2" THEN "OWNER" ELSE NoRole]]
    /\ posts = [p \in PostIds |-> NoPost]
    /\ postProducts = {}
    /\ products = [p \in ProductIds |-> NoProduct]
    /\ categories = [c \in CategoryIds |-> NoCategory]
    /\ links = [l \in LinkIds |-> NoLink]
    /\ resp = NoResponse
    /\ \E t \in TokenPool : browser = [NoBrowser EXCEPT !.cookie = t]
    /\ accounts = SeedAccounts
    /\ auth = NoAuth
    /\ inflight = [i \in Slots |-> NoRequest]

NextChain ==
    \/ \E session \in Sessions, pathname \in PathPool, fetch \in FetchOutcomes :
          Middleware(session, pathname, fetch)
    \/ \E fetch \in FetchOutcomes : FollowRedirect(fetch)
    \/ RenderPage
    \/ \E s \in ChainSlugs, x \in RandomSuffixes :
          CreateWorkspaceSubmit("u1", <<"A", "b", " ", "c">>, s, x)

SpecChain == InitChain /\ [][NextChain]_vars

\* ------------------------------------------------------------------ C1
\* C1: a read scoped to a workspace (a list or a single GET of posts,
\* products, categories or affiliate links, with the related rows the
\* response embeds) never
\* returns a resource whose workspaceId is another workspace.
RowWorkspace(row) ==
    CASE row[1] = "post" -> posts[row[2]].workspaceId
      [] row[1] = "product" -> products[row[2]].workspaceId
      [] row[1] = "category" -> categories[row[2]].workspaceId
      [] OTHER -> links[row[2]].workspaceId

ReadOps ==
    {"POST_LIST", "POST_GET", "CAT_LIST", "CAT_GET", "PRODUCT_LIST", "PRODUCT_GET",
     "LINK_LIST", "LINK_GET"}

C1_WorkspaceIsolation ==
    (resp.op \in ReadOps /\ resp.status = 200)
    => \A row \in resp.data : RowWorkspace(row) = resp.ws

\* ------------------------------------------------------------------ C2
\* C2: a workspace record changes only through a PUT by a caller whose
\* membership role is ADMIN or OWNER, or through a DELETE by an OWNER, and its
\* delete timestamp changes only through such a DELETE; every other request
\* leaves the record as it was.
C2_WorkspaceChangeNeedsRole ==
    [][\A w \in WsIds :
          (workspaces[w].exists /\ workspaces'[w] # workspaces[w]) =>
             /\ resp'.ws = w
             /\ resp'.op \in {"WS_PUT", "WS_DELETE"}
             /\ resp'.op = "WS_PUT" =>
                   /\ RoleOf(resp'.user, w) \in {"ADMIN", "OWNER"}
                   /\ workspaces'[w].deletedAt = workspaces[w].deletedAt
             /\ resp'.op = "WS_DELETE" => RoleOf(resp'.user, w) = "OWNER"]_vars

C2_Witness ==
    /\ resp.op = "WS_PUT"
    /\ resp.status = 200
    /\ RoleOf(resp.user, resp.ws) = "ADMIN"
    /\ workspaces[resp.ws].name = <<"a", "b", "_", "c", "!">>

\* ------------------------------------------------------------------ C3
\* C3: in every reachable store state and for every request, if the request
\* succeeds for a member with role r1 it succeeds for a member with any role
\* r2 ranked at least as high.
C3_RoleMonotonic ==
    \A r1 \in Roles, r2 \in Roles :
        roleHierarchy[r1] <= roleHierarchy[r2] =>
            \A c \in Users, w \in WsIds :
                /\ WsGetOutcome(c, r1, w).status = 200 => WsGetOutcome(c, r2, w).status = 200
                /\ WsDeleteOutcome(c, r1, w).status = 200
                      => WsDeleteOutcome(c, r2, w).status = 200
                /\ \A body \in WsPutBodies :
                      WsPutOutcome(c, r1, w, body).status = 200
                         => WsPutOutcome(c, r2, w, body).status = 200

C3_Witness ==
    /\ resp.op = "WS_PUT"
    /\ resp.status = 200
    /\ RoleOf(resp.user, resp.ws) = "ADMIN"
    /\ WsPutOutcome(resp.user, "OWNER", resp.ws, [name |-> Undefined, slug |-> Undefined]).status = 200
    /\ WsPutOutcome(resp.user, "MEMBER", resp.ws, [name |-> Undefined, slug |-> Undefined]).status = 403

\* ------------------------------------------------------------------ C8
\* C8: no two workspace records ever share a slug, and a create whose desired
\* slug is already taken stores the desired slug followed by "-" and the
\* random suffix, a slug no existing workspace has.
UniqueWsSlugs ==
    \A w1 \in ExistingWs, w2 \in ExistingWs :
        w1 # w2 => workspaces[w1].slug # workspaces[w2].slug

C8_WorkspaceSlugUnique ==
    [][/\ UniqueWsSlugs'
       /\ \A c \in Callers, n \in TitlePool, s \in SlugPool, x \in RandomSuffixes :
             (/\ WsCreate(c, n, s, x)
              /\ resp'.status = 200
              /\ WsSlugTaken(WsDesiredSlug(n, s), {})) =>
                /\ workspaces'[resp'.ws].slug = WsDesiredSlug(n, s) \o <<"-">> \o x
                /\ \A w \in ExistingWs : workspaces[w].slug # workspaces'[resp'.ws].slug]_vars

C8_Witness ==
    /\ resp.op = "WS_CREATE"
    /\ resp.status = 200
    /\ \E x \in RandomSuffixes : workspaces[resp.ws].slug = SeedSlug \o <<"-">> \o x
    /\ workspaces[1].slug = SeedSlug

\* ------------------------------------------------------------------ C4
\* C4: a PUT of a post whose productIds names a product that does not belong
\* to the workspace is rejected, and the post's fields and its PostProduct
\* rows are exactly what they were before the request.
ForeignProductIn(w, ids) ==
    /\ ids # AbsentIds
    /\ \E x \in ids : ~(x \in ProductIds /\ products[x].exists /\ products[x].workspaceId = w)

C4_ReplaceIsAtomic ==
    [][\A c \in Callers, w \in WsIds, p \in PostIds, body \in PostPutBodies :
          (PostPut(c, w, p, body) /\ ForeignProductIn(w, body.productIds))
          => /\ resp'.status # 200
             /\ posts' = posts
             /\ postProducts' = postProducts]_vars

C4_Witness ==
    /\ resp.op = "POST_PUT"
    /\ resp.thrown = MsgProductsMismatch
    /\ posts[resp.id].slug = generateSlug(PostTitle)
    /\ \E x \in ProductIds : <<resp.id, x>> \in postProducts

\* ------------------------------------------------------------------ C5
\* C5: when a set-active request for a link completes, the product's active
\* reference is that link and no other link of the product is reported
\* active (so after L1 then L2 it is L2 and L1 no longer is); at no point
\* are two links of one product reported active.
ActiveLinksOf(p) == {l \in ExistingLinks : links[l].productId = p /\ IsActive(l)}

C5_SingleActiveLink ==
    [][/\ \A c \in Callers, w \in WsIds, l \in LinkIds :
              (SetActive(c, w, l) /\ resp'.status = 200)
              => /\ products'[links[l].productId].activeAffiliateLinkId = l
                 /\ ActiveLinksOf(links[l].productId)' = {l}
       /\ \A p \in ProductIds : Cardinality(ActiveLinksOf(p)') <= 1]_vars

C5_Witness ==
    /\ resp.op = "SET_ACTIVE"
    /\ resp.status = 200
    /\ \E l1 \in ExistingLinks \ {resp.id} :
          /\ Row("previous", l1) \in resp.data
          /\ links[l1].productId = links[resp.id].productId
          /\ ~IsActive(l1)
    /\ products[links[resp.id].productId].activeAffiliateLinkId = resp.id

\* ------------------------------------------------------------------ C6
\* C6: DELETE of a category that products reference fails with the error
\* "Cannot delete category" and leaves the category and every product
\* unmodified; a category is removed only when no product references it.
ReferencedBy(cat) == {p \in ExistingProducts : products[p].categoryId = cat}

C7_DeletedPostExcluded ==
    [][\A p \in PostIds :
          (posts[p].exists /\ posts[p].deletedAt # Null)
          => /\ posts'[p] = posts[p]
             /\ {pp \in postProducts' : pp[1] = p} = {pp \in postProducts : pp[1] = p}
             /\ resp'.op = "POST_LIST" => Row("post", p) \notin resp'.data
             /\ \A c \in Callers, w \in WsIds :
                   /\ PostGet(c, w, p) => resp'.status # 200
                   /\ PostDelete(c, w, p) => resp'.status # 200
                   /\ \A body \in PostPutBodies :
                         PostPut(c, w, p, body) => resp'.status # 200]_vars

C7_Witness ==
    /\ resp.op \in {"POST_GET", "POST_PUT"}
    /\ resp.user \in Users
    /\ RoleOf(resp.user, resp.ws) # NoRole
    /\ posts[resp.id].exists
    /\ posts[resp.id].workspaceId = resp.ws
    /\ posts[resp.id].deletedAt # Null
    /\ resp.thrown = MsgPostNotFound

\* ------------------------------------------------------------------ C9
\* C9: a create request by a member of the workspace with valid input is
\* never rejected because of a slug collision: whatever posts, live or
\* soft-deleted, already exist, and whichever suffix not yet in use is drawn,
\* the create succeeds.
C9_CreateNeverRejected ==
    \A c \in Users, w \in ExistingWs, body \in PostCreateBodies :
        (/\ RoleOf(c, w) # NoRole
         /\ Len(body.title) >= MinNameLen
         /\ ~ForeignProductIn(w, body.productIds))
        => \A x \in PostCreateDraws(w, body) :
              ~PostIndexViolated(w, WithSuffix(PostDesiredSlug(body), x), {})
              => PostCreateOutcome(c, RoleOf(c, w), w, body, x).status = 200

\* ----------------------------------------------------------------- C10
\* C10: every request to a workspace-scoped endpoint by an authenticated user
\* who is no member of the workspace, or whose role is below the one the
\* endpoint requires, is answered with status 403.
RequiredRole(op) ==
    CASE op = "WS_PUT" -> "ADMIN"
      [] op = "WS_DELETE" -> "OWNER"
      [] OTHER -> "MEMBER"

C10_DeniedIs403 ==
    (/\ resp.user \in Users
     /\ resp.ws \in ExistingWs
     /\ resp.op \in {"WS_GET", "WS_PUT", "WS_DELETE"}
     /\ \/ RoleOf(resp.user, resp.ws) = NoRole
        \/ roleHierarchy[RoleOf(resp.user, resp.ws)] < roleHierarchy[RequiredRole(resp.op)])
    => resp.status = 403

\* ----------------------------------------------------------------- C11
\* C11: a GET, PUT or DELETE by a workspace member addressed to a post that
\* does not exist, is soft-deleted, or belongs to another workspace is
\* answered 404, never 500, and leaves the store unchanged.
PostMissing(w, p) ==
    ~(posts[p].exists /\ posts[p].workspaceId = w /\ posts[p].deletedAt = Null)

C11_MissingIs404 ==
    [][\A c \in Users, w \in ExistingWs, p \in PostIds :
          (/\ RoleOf(c, w) # NoRole
           /\ PostMissing(w, p)
           /\ \/ PostGet(c, w, p)
              \/ PostDelete(c, w, p)
              \/ \E body \in PostPutBodies : PostPut(c, w, p, body))
          => /\ resp'.status = 404
             /\ UNCHANGED <<workspaces, members, posts, postProducts, products,
                            categories, links>>]_vars

\* ----------------------------------------------------------------- C12
\* C12: every response carries a boolean 'success' field, true exactly on
\* success responses and false on every error response.
C12_SuccessField ==
    resp.op # "none"
    => resp.success = (IF resp.status = 200 THEN "true" ELSE "false")


\* ----------------------------------------------------------------- C13
\* C13: for an authenticated request to /dashboard by a user with at least
\* one workspace (the lookup having succeeded), the redirect goes to the
\* workspace whose slug equals the client-supplied last-workspace token
\* when that workspace is among the user's workspaces; otherwise to the
\* user's most-recently-updated workspace; otherwise to the first returned.
MostRecentlyUpdated(list) ==
    {w \in {list[i] : i \in 1..Len(list)} :
        \A i \in 1..Len(list) : workspaces[list[i]].updatedAt <= workspaces[w].updatedAt}

SelectedBySpec(list, token) ==
    IF FindBySlug(list, token) # Null THEN FindBySlug(list, token)
    ELSE IF Cardinality(MostRecentlyUpdated(list)) = 1
         THEN CHOOSE w \in MostRecentlyUpdated(list) : TRUE
    ELSE list[1]

C13_RoutingSelection ==
    [][\A session \in Sessions \ {AnonymousSession} :
          (/\ Len(WsListRows(session.user)) > 0
           /\ Middleware(session, PathDashboard, "ok"))
          => /\ browser'.answer = "redirect"
             /\ browser'.location = WorkspaceDashboardPath(
                    workspaces[SelectedBySpec(WsListRows(session.user), browser.cookie)].slug)]_vars


\* ----------------------------------------------------------------- C14
\* C14: for an authenticated request to /dashboard whose workspace lookup
\* succeeds: a user who belongs to no non-deleted workspace is not
\* redirected and the request continues to /dashboard (onboarding); a user
\* who belongs to one or more is redirected to /<slug>/dashboard of one of
\* that user's own non-deleted workspaces.
OwnLiveWorkspaces(user) ==
    {w \in WsIds : /\ workspaces[w].exists
                   /\ workspaces[w].deletedAt = Null
                   /\ members[user][w] # NoRole}

C14_DashboardRouting ==
    [][\A session \in Sessions \ {AnonymousSession} :
          Middleware(session, PathDashboard, "ok")
          => IF OwnLiveWorkspaces(session.user) = {}
             THEN /\ browser'.answer = "next"
                  /\ browser'.location = PathDashboard
             ELSE /\ browser'.answer = "redirect"
                  /\ \E w \in OwnLiveWorkspaces(session.user) :
                        browser'.location = WorkspaceDashboardPath(workspaces[w].slug)]_vars

\* A redirect into a live workspace of a user who also has a deleted one.
C14_Witness ==
    /\ browser.pathname = PathDashboard
    /\ browser.fetch = "ok"
    /\ browser.answer = "redirect"
    /\ \E w \in OwnLiveWorkspaces(browser.session.user) :
          browser.location = WorkspaceDashboardPath(workspaces[w].slug)
    /\ \E v \in WsIds : /\ workspaces[v].exists
                        /\ workspaces[v].deletedAt # Null
                        /\ members[browser.session.user][v] # NoRole

\* ----------------------------------------------------------------- C15
\* C15: when the workspace lookup made for an authenticated /dashboard
\* request fails (the fetch throws or answers a non-OK status), the
\* middleware neither redirects nor rejects: the request continues to
\* /dashboard, the destination it asked for.
C15_FailOpen ==
    [][\A session \in Sessions \ {AnonymousSession}, fetch \in {"not_ok", "throws"} :
          Middleware(session, PathDashboard, fetch)
          => /\ browser'.answer = "next"
             /\ browser'.location = PathDashboard]_vars

\* A failed lookup for a user who does have a workspace to be routed into.
C15_Witness ==
    /\ browser.pathname = PathDashboard
    /\ browser.fetch \in {"not_ok", "throws"}
    /\ browser.answer = "next"
    /\ browser.location = PathDashboard
    /\ OwnLiveWorkspaces(browser.session.user) # {}

\* ----------------------------------------------------------------- C16
\* C16: for every page path, (a) a request without a session to a path
\* other than /, /auth/signin, /auth/signup is redirected to the sign-in
\* path; (b) a request with a session to the sign-in or sign-up page is
\* redirected to /dashboard; (c) a request with a session to a path under
\* /admin proceeds only if the platform role is ADMIN or SUPER_ADMIN and is
\* otherwise redirected to /dashboard.
C16_Gating ==
    browser.answer # "none"
    => /\ (browser.session = AnonymousSession
           /\ browser.pathname \notin {PathRoot, PathSignin, PathSignup})
          => (browser.answer = "redirect" /\ browser.location = PathSignin)
       /\ (browser.session # AnonymousSession
           /\ browser.pathname \in {PathSignin, PathSignup})
          => (browser.answer = "redirect" /\ browser.location = PathDashboard)
       /\ (browser.session # AnonymousSession
           /\ StartsWith(browser.pathname, PathAdmin))
          => IF browser.session.role \in {"ADMIN", "SUPER_ADMIN"}
             THEN browser.answer = "next" /\ browser.location = browser.pathname
             ELSE browser.answer = "redirect" /\ browser.location = PathDashboard

\* A signed-in user without an admin role turned away from an admin page.
C16_Witness ==
    /\ browser.session # AnonymousSession
    /\ browser.session.role = "USER"
    /\ browser.pathname = PathAdminUsers
    /\ browser.answer = "redirect"
    /\ browser.location = PathDashboard


\* ----------------------------------------------------------------- C17
\* C17: authenticate(email, password) yields a session principal only if a
\* user with exactly that email exists, has a stored password hash, and
\* the supplied password matches that hash; in every other case (missing
\* credential, unknown email, no hash, wrong password, store error) it
\* yields an authentication failure; a principal carries that user's id,
\* email, name and platform role.
CredentialsMatch(u) ==
    /\ accounts[u].exists
    /\ accounts[u].email = auth.email
    /\ accounts[u].password # NoHash
    /\ accounts[u].password = Hash(auth.password)

C17_Authenticate ==
    auth.called
    => /\ auth.principal # NoPrincipal
          <=> /\ auth.email # "" /\ auth.password # ""
              /\ auth.storeOk
              /\ \E u \in Users : CredentialsMatch(u)
       /\ auth.principal # NoPrincipal
          => /\ CredentialsMatch(auth.principal.id)
             /\ auth.principal.email = accounts[auth.principal.id].email
             /\ auth.principal.name = accounts[auth.principal.id].name
             /\ auth.principal.role = accounts[auth.principal.id].role
             /\ auth.session = Session(auth.principal.id, accounts[auth.principal.id].role)

\* A successful sign-in of an administrator while another account shares
\* the password.
C17_Witness ==
    /\ auth.called
    /\ auth.principal # NoPrincipal
    /\ auth.principal.role = "ADMIN"
    /\ \E u \in Users \ {auth.principal.id} :
          accounts[u].exists /\ accounts[u].password = Hash(auth.password)


\* ----------------------------------------------------------------- C18
\* C18: for GET /workspaces/by-slug/{slug}, the response to a signed-in
\* caller who is not a member of an existing workspace with that slug is
\* identical (status and body) to the response when no workspace has that
\* slug and to the response when the workspace is soft-deleted; and two
\* store states that differ only in other tenants' workspaces give the
\* caller the same response.
HiddenFrom(caller, slug) ==
    \/ \E w \in WsIds : /\ workspaces[w].exists
                        /\ workspaces[w].slug = slug
                        /\ workspaces[w].deletedAt = Null
                        /\ members[caller][w] = NoRole
    \/ ~\E w \in WsIds : workspaces[w].exists /\ workspaces[w].slug = slug
    \/ \E w \in WsIds : /\ workspaces[w].exists
                        /\ workspaces[w].slug = slug
                        /\ workspaces[w].deletedAt # Null

\* The store with every workspace the caller is not a member of removed.
OwnWorkspacesOnly(caller) ==
    [w \in WsIds |-> IF members[caller][w] # NoRole THEN workspaces[w] ELSE NoWorkspace]

OwnMembersOnly(caller) ==
    [u \in Users |-> [w \in WsIds |->
        IF members[caller][w] # NoRole THEN members[u][w] ELSE NoRole]]

C18_InformationHiding ==
    [][\A c \in Users, s \in BySlugPool :
          WsBySlug(c, s)
          => /\ HiddenFrom(c, s)
                => /\ resp'.status = 404
                   /\ resp'.error = MsgWorkspaceNotFound
                   /\ resp'.success = "absent"
                   /\ resp'.data = {}
             /\ resp' = WsBySlugResponse(OwnWorkspacesOnly(c), OwnMembersOnly(c), c, s)]_vars

\* A signed-in caller asks for a live workspace of another tenant and is
\* told it is not there.
C18_Witness ==
    /\ resp.op = "WS_BY_SLUG"
    /\ resp.user = "u1"
    /\ resp.status = 404
    /\ \E w \in WsIds : /\ workspaces[w].exists
                        /\ workspaces[w].slug = resp.slug
                        /\ workspaces[w].deletedAt = Null
                        /\ members["u1"][w] = NoRole
                        /\ members["u2"][w] # NoRole


\* ----------------------------------------------------------------- C19
\* C19: after a signed-in user has entered workspace W (its dashboard
\* loaded, or W was just created through the form), that user's next
\* /dashboard request is redirected to W's dashboard, as long as the user
\* is still a member of W: the token the resolver reads names W.  The last
\* entry is the one whose slug the client stored.
C19_LastWorkspaceRemembered ==
    [][\A session \in Sessions \ {AnonymousSession}, w \in WsIds :
          (/\ w \in OwnLiveWorkspaces(session.user)
           /\ browser.localStorage = workspaces[w].slug
           /\ Middleware(session, PathDashboard, "ok"))
          => /\ browser'.answer = "redirect"
             /\ browser'.location = WorkspaceDashboardPath(workspaces[w].slug)]_vars


\* ----------------------------------------------------------------- C20
\* C20: creating a workspace adds, together with the workspace record,
\* exactly one membership for it, (caller, workspace, OWNER), and a create
\* that fails adds neither; in every reachable state there is at most one
\* membership per (user, workspace) pair (members holds one role per pair,
\* as the unique index on (userId, workspaceId) enforces) and every
\* workspace has at least one OWNER member.
EveryWorkspaceHasOwner ==
    \A w \in WsIds :
        IF workspaces[w].exists
        THEN \E u \in Users : members[u][w] = "OWNER"
        ELSE \A u \in Users : members[u][w] = NoRole

CreateAddsOwner ==
    \A c \in Callers, n \in TitlePool, s \in SlugPool, x \in RandomSuffixes :
        WsCreate(c, n, s, x)
        => IF resp'.status = 200
           THEN /\ ~workspaces[resp'.ws].exists
                /\ workspaces'[resp'.ws].exists
                /\ \A w \in WsIds \ {resp'.ws} : workspaces'[w].exists = workspaces[w].exists
                /\ \A u \in Users, w \in WsIds :
                      members'[u][w] = IF w = resp'.ws
                                       THEN (IF u = c THEN "OWNER" ELSE NoRole)
                                       ELSE members[u][w]
           ELSE /\ \A w \in WsIds : workspaces'[w].exists = workspaces[w].exists
                /\ members' = members

C21_ActiveLinkBelongs ==
    \A p \in ProductIds :
        (products[p].exists /\ products[p].activeAffiliateLinkId # Null)
        => LET l == products[p].activeAffiliateLinkId
           IN  /\ links[l].exists
               /\ links[l].productId = p
               /\ links[l].workspaceId = products[p].workspaceId


\* ----------------------------------------------------------------- C22
\* C22: clear-active is a no-op unless the link is the active one, under
\* every interleaving: the write of a DELETE .../affiliate-links/{L1}/
\* set-active request never changes a product whose active-link reference
\* points, at the moment of the write, to a different link L2.
C22_ClearOnlyOwnLink ==
    [][\A slot \in Slots, p \in ProductIds :
          (/\ ClearActiveWrite(slot)
           /\ products[p].exists
           /\ products[p].activeAffiliateLinkId # Null
           /\ products[p].activeAffiliateLinkId # inflight[slot].id)
          => products'[p] = products[p]]_vars


\* ----------------------------------------------------------------- C23
\* C23: under every interleaving of a category DELETE with concurrent
\* product requests that assign that category, a category is never removed
\* while a product references it, so no product's category reference is
\* cleared or left dangling as a consequence of a category deletion.
C23_NoDeleteWhileReferenced ==
    [][\A c \in CategoryIds :
          (categories[c].exists /\ ~categories'[c].exists)
          => /\ \A p \in ProductIds : ~(products[p].exists /\ products[p].categoryId = c)
             /\ \A p \in ProductIds : products'[p].categoryId = products[p].categoryId]_vars

\* ----------------------------------------------------------------- C24
\* C24: category names are unique within a workspace in every reachable
\* state, under any interleaving of concurrent create and rename requests
\* (the same name may be used in different workspaces).
C24_CategoryNameUnique ==
    \A c, d \in CategoryIds :
        (/\ c # d
         /\ categories[c].exists /\ categories[d].exists
         /\ categories[c].workspaceId = categories[d].workspaceId)
        => categories[c].name # categories[d].name


\* ----------------------------------------------------------------- C25
\* C25: in every reachable state no two affiliate links of the same
\* product have the same affiliateUrl.
C25_UrlUniquePerProduct ==
    \A l, m \in LinkIds :
        (/\ l # m
         /\ links[l].exists /\ links[m].exists
         /\ links[l].productId = links[m].productId)
        => links[l].affiliateUrl # links[m].affiliateUrl

\* ----------------------------------------------------------------- C29
\* C29: in every reachable state each affiliate link's workspaceId equals
\* the workspaceId of the product it belongs to.
C29_LinkWorkspaceMatchesProduct ==
    \A l \in LinkIds :
        links[l].exists
        => /\ products[links[l].productId].exists
           /\ links[l].workspaceId = products[links[l].productId].workspaceId


\* ----------------------------------------------------------------- C26
\* C26: every read excludes soft-deleted rows: the post count reported for
\* a workspace by GET /workspaces, GET /workspaces/{id} and GET
\* /workspaces/by-slug/{slug} equals the number of that workspace's posts
\* whose delete timestamp is unset, and the posts embedded in a product
\* read contain no soft-deleted post.
C26_ReadsExcludeDeleted ==
    /\ (resp.op \in {"WS_LIST", "WS_GET", "WS_BY_SLUG"} /\ resp.status = 200)
       => \A wn \in resp.counts :
             wn[2] = Cardinality({p \in PostIds : /\ posts[p].exists
                                                   /\ posts[p].workspaceId = wn[1]
                                                   /\ posts[p].deletedAt = Null})
    /\ (resp.op = "PRODUCT_GET" /\ resp.status = 200)
       => \A row \in resp.data :
             row[1] = "post" => posts[row[2]].deletedAt = Null


\* ----------------------------------------------------------------- C27
\* C27: redirect chains terminate: for every user, every number of
\* workspaces and every starting path, no redirect issued by the
\* middleware, the dashboard layout or the admin layout leads back to a
\* path already requested in the same chain.
C27_NoRedirectLoop ==
    browser.answer = "redirect" => browser.location \notin browser.chain

\* ----------------------------------------------------------------- C28
\* C28: a soft-deleted workspace is frozen: once its delete timestamp is
\* set, no request changes the workspace record (its delete timestamp
\* included) or any post, product, category or affiliate link of that
\* workspace.
C28_DeletedWorkspaceFrozen ==
    [][\A w \in WsIds :
          (workspaces[w].exists /\ workspaces[w].deletedAt # Null) =>
             /\ workspaces'[w] = workspaces[w]
             /\ \A p \in PostIds :
                   (posts[p].workspaceId = w \/ posts'[p].workspaceId = w)
                   => posts'[p] = posts[p]
             /\ \A p \in ProductIds :
                   (products[p].workspaceId = w \/ products'[p].workspaceId = w)
                   => products'[p] = products[p]
             /\ \A c \in CategoryIds :
                   (categories[c].workspaceId = w \/ categories'[c].workspaceId = w)
                   => categories'[c] = categories[c]
             /\ \A l \in LinkIds :
                   (links[l].workspaceId = w \/ links'[l].workspaceId = w)
                   => links'[l] = links[l]]_vars

\* ----------------------------------------------------------------- C30
\* C30: for every post in every reachable state, the publish timestamp is
\* set if and only if the publish flag is true.
C30_PublishedAtIffPublished ==
    \A p \in ExistingPosts : posts[p].isPublished <=> posts[p].publishedAt # Null

====
